---- MODULE Spec2Model ----
(***************************************************************************)
(* Model of the chained hash join of src/src/execution/join_hashtable.cpp: *)
(* JoinHashTable (Build, Finalize, Probe) and the per-batch probe cursor   *)
(* ScanStructure with its join-kind specific Next methods.                 *)
(*                                                                         *)
(* Values: a key value is NULL (0) or a member of KeyValues.  A row        *)
(* address is a positive integer (block b, position i is                   *)
(* (b-1)*BlockCapacity + i); the null pointer is 0.  The 8-byte slot of a  *)
(* row at pointer_offset is one integer field, at_pointer_offset: Build    *)
(* writes the hash there and Finalize overwrites it with the chain         *)
(* pointer.                                                                *)
(***************************************************************************)
EXTENDS Integers, Sequences, FiniteSets, TLC

\* ------------------------------------------------------------ bounds
\* lanes of one vector (scaled down)
STANDARD_VECTOR_SIZE == 2
\* rows of one row block (scaled down)
BlockCapacity == 2
\* Storage::BLOCK_SIZE / sizeof(data_ptr_t) (scaled down)
BlockSizeInPointers == 1
\* rows stored in one table
MaxBuildRows == 3
\* width of hash_t in bits (scaled down)
HASH_BITS == 3
\* radix bits of the initial histogram (scaled down)
INITIAL_RADIX_BITS == 2

NULL == 0
KeyValues == {1, 2}
Vals == {NULL} \cup KeyValues
AllThreads == {1, 2}

\* ------------------------------------------------------------ helpers
MaxValue(a, b) == IF a >= b THEN a ELSE b

RECURSIVE Pow2(_)
Pow2(n) == IF n = 0 THEN 1 ELSE 2 * Pow2(n - 1)

RECURSIVE NextPowerOfTwoFrom(_, _)
NextPowerOfTwoFrom(p, v) == IF p >= v THEN p ELSE NextPowerOfTwoFrom(2 * p, v)
\* smallest power of two >= v (v >= 1)
NextPowerOfTwo(v) == NextPowerOfTwoFrom(1, v)

Range(s) == {s[i] : i \in 1..Len(s)}

RECURSIVE Flatten(_)
Flatten(ss) == IF ss = <<>> THEN <<>> ELSE Head(ss) \o Flatten(Tail(ss))

\* key tuples of n columns, and batches of 1..lanes of them
KeyTuples(n) == [1..n -> Vals]
Batches(n, lanes) == UNION {[1..k -> KeyTuples(n)] : k \in 1..lanes}

VARIABLES
    join_type,          \* JoinType of the table
    conditions,         \* sequence of comparison kinds, one per key column
    correlated_types,   \* number of correlated columns of a MARK join (0: none)
    correlated_counts,  \* group -> [count_star, count] of the correlated aggregate
    block_collection,   \* sequence of row blocks, each a sequence of rows
    histogram_ptr,      \* radix histogram of the stored hashes
    has_null,
    finalized,
    hash_map,           \* slot -> row address (0: empty); <<>> before Finalize
    bitmask,
    pinned_handles,     \* block indices whose pin handle the table retains
    threads,            \* the probing threads
    rescan,             \* whether a thread probes further batches after its first
    build_limit,        \* rows the build side feeds to the table at most
    probe_lanes,        \* lanes of a probe batch at most
    ss,                 \* thread -> its ScanStructure (and the batch it probes)
    result,             \* thread -> result chunk of its latest Next call
    output,             \* thread -> the non-empty result chunks of the current scan
    matched_by_probe,   \* addresses of the build rows that a probed lane matches
    current_radix_bits, \* radix bits of histogram_ptr
    fed_null_key,       \* whether Build was given a row with a null in a key column
                        \* whose nulls are not equal
    hash_map_reads,     \* thread -> the slots of hash_map its latest Probe loaded
    probe_ended,        \* whether the probe side is exhausted
    state,              \* JoinHTScanState shared by the ScanFullOuter calls
    full_outer_output,  \* the rows emitted by the ScanFullOuter calls, in order
    reduction,          \* the latest histogram reduction: the call, its avg_row_size,
                        \* the bits it reduced to and its reduced_hist
    local_hts,          \* worker -> the table it builds (local_hts of the operator)
    all_constant,       \* layout.AllConstant(): no variable-length column
    global_ht,          \* the swizzled and the partition collections of the table
    event,              \* the PartitionEvent and its tasks
    finalize,           \* the FinalizeExternal calls of the threads
    partition_cutoff,   \* partition_cutoff of the table: the partitions below it are
                        \* probed in the current round
    probe_ht,           \* the table of the probe side that ProbeAndBuild sinks into
    rounds              \* the rounds of the partitioned probe and their output

vars == <<join_type, conditions, correlated_types, correlated_counts, block_collection,
          histogram_ptr, has_null, finalized, hash_map, bitmask, pinned_handles,
          threads, rescan, build_limit, probe_lanes, ss, result, output,
          matched_by_probe, current_radix_bits, fed_null_key, hash_map_reads,
          probe_ended, state, full_outer_output, reduction, local_hts, all_constant,
          global_ht, event, finalize, partition_cutoff, probe_ht, rounds>>

config == <<join_type, conditions, correlated_types, threads, rescan, build_limit,
            probe_lanes>>
table == <<block_collection, histogram_ptr, has_null, finalized, hash_map, bitmask,
           pinned_handles, correlated_counts, current_radix_bits, fed_null_key,
           reduction>>
\* the full outer scan after the probe
outer_scan == <<probe_ended, state, full_outer_output>>
\* the cursors of the probing threads
probe_state == <<ss, result, output, matched_by_probe, hash_map_reads>>
\* the external (partitioned) build
partitioned_probe == <<partition_cutoff, probe_ht, rounds>>
external == <<local_hts, all_constant, global_ht, event, finalize, partitioned_probe>>

\* ------------------------------------------------------------ constructor
IsRightOuterJoin(jt) == jt \in {"OUTER", "RIGHT"}

\* a comparison that the constructor counts as an equality (hashed) column
IsEqualityType(cmp) ==
    cmp \in {"COMPARE_EQUAL", "COMPARE_NOT_DISTINCT_FROM", "COMPARE_DISTINCT_FROM"}

\* null_values_are_equal[i]
NullValuesAreEqual(cmp) == cmp \in {"COMPARE_DISTINCT_FROM", "COMPARE_NOT_DISTINCT_FROM"}

\* equality_types.size(): the equality conditions are a prefix of the conditions
EqualityCount == Cardinality({i \in 1..Len(conditions) : IsEqualityType(conditions[i])})

ColumnCount == Len(conditions)

NumPartitions(bits) == Pow2(bits)

InitializeHistogram(bits) == [p \in 0..(NumPartitions(bits) - 1) |-> 0]

EmptyScan ==
    [active |-> FALSE, keys |-> <<>>, count |-> 0, sel_vector |-> <<>>,
     pointers |-> <<>>, found_match |-> <<>>, finished |-> FALSE, visited |-> <<>>]

\* no histogram reduction was called yet
NoReduction == [call |-> "none", avg_row_size |-> 0, to |-> 0, reduced_hist |-> <<>>]

InitTable(jts, condsets, corr, thr, again, limit, lanes) ==
    /\ join_type \in jts
    /\ conditions \in condsets
    /\ correlated_types = corr
    /\ correlated_counts = [g \in KeyTuples(corr) |-> [count_star |-> 0, count |-> 0]]
    /\ block_collection = <<>>
    /\ histogram_ptr = InitializeHistogram(INITIAL_RADIX_BITS)
    /\ has_null = FALSE
    /\ finalized = FALSE
    /\ hash_map = <<>>
    /\ bitmask = 0
    /\ pinned_handles = <<>>
    /\ threads = thr
    /\ rescan = again
    /\ build_limit = limit
    /\ probe_lanes = lanes
    /\ ss = [t \in AllThreads |-> EmptyScan]
    /\ result = [t \in AllThreads |-> <<>>]
    /\ output = [t \in AllThreads |-> <<>>]
    /\ matched_by_probe = {}
    /\ current_radix_bits = INITIAL_RADIX_BITS
    /\ fed_null_key = FALSE
    /\ hash_map_reads = [t \in AllThreads |-> {}]
    /\ probe_ended = FALSE
    /\ state = [block_position |-> 0, position |-> 0]
    /\ full_outer_output = <<>>
    /\ reduction = NoReduction

\* no partitioned probe: the constructor does not set partition_cutoff (it is 0
\* until a round sets it), and there is no table of the probe side
NoPartitionedProbe ==
    /\ partition_cutoff = 0
    /\ probe_ht = <<>>
    /\ rounds = [phase |-> "none"]

\* a table that is built in memory: no local tables
NoExternal ==
    /\ NoPartitionedProbe
    /\ local_hts = <<>>
    /\ all_constant = TRUE
    /\ global_ht = [swizzled_block_collection |-> <<>>,
                    partition_block_collections |-> <<>>]
    /\ event = [state |-> "none", tasks |-> <<>>, partition_lock |-> 0, fed |-> {}]
    /\ finalize = [lock |-> 0, pc |-> [t \in AllThreads |-> "idle"],
                   calls |-> [t \in AllThreads |-> 0], runs |-> 0]

InitWith(jts, condsets, corr, thr, again, limit, lanes) ==
    /\ InitTable(jts, condsets, corr, thr, again, limit, lanes)
    /\ NoExternal

\* ------------------------------------------------------------ rows
Count == Len(Flatten(block_collection))

Addr(b, i) == (b - 1) * BlockCapacity + i
BlockOf(a) == ((a - 1) \div BlockCapacity) + 1
PosOf(a) == ((a - 1) % BlockCapacity) + 1
RowAt(a) == block_collection[BlockOf(a)][PosOf(a)]
AllAddrs == {Addr(b, i) : b \in 1..Len(block_collection), i \in 1..BlockCapacity}
            \cap {a \in 1..(Len(block_collection) * BlockCapacity) :
                    PosOf(a) <= Len(block_collection[BlockOf(a)])}

\* RowDataCollection::Build: the rows go to the last block while it has room,
\* then to new blocks
RECURSIVE AppendRows(_, _)
AppendRows(blocks, rows) ==
    IF rows = <<>> THEN blocks
    ELSE IF blocks # <<>> /\ Len(blocks[Len(blocks)]) < BlockCapacity
         THEN AppendRows([blocks EXCEPT ![Len(blocks)] = Append(@, Head(rows))], Tail(rows))
         ELSE AppendRows(Append(blocks, <<Head(rows)>>), Tail(rows))

\* ------------------------------------------------------------ hashing
\* hash of one value (VectorOperations::Hash)
HashOp(v) == IF v = NULL THEN 0 ELSE (4 * v - 3) % Pow2(HASH_BITS)
\* VectorOperations::CombineHash
CombineHash(h, v) == (3 * h + HashOp(v)) % Pow2(HASH_BITS)

RECURSIVE HashColumns(_, _)
HashColumns(key, n) ==
    IF n = 1 THEN HashOp(key[1]) ELSE CombineHash(HashColumns(key, n - 1), key[n])

\* JoinHashTable::Hash: only the equality columns are hashed
Hash(key) == HashColumns(key, EqualityCount)

\* hash & bitmask, bitmask = capacity - 1 with capacity a power of two
ApplyBitmask(h) == h % (bitmask + 1)

\* RadixPartitioning: the partition of a hash is its top `bits` bits
RadixPartition(h, bits) == h \div Pow2(HASH_BITS - bits)

RECURSIVE UpdateHistogram(_, _)
UpdateHistogram(hist, hashes) ==
    IF hashes = <<>> THEN hist
    ELSE UpdateHistogram(
            [hist EXCEPT ![RadixPartition(Head(hashes), INITIAL_RADIX_BITS)] = @ + 1],
            Tail(hashes))

\* ------------------------------------------------------------ PrepareKeys
\* FilterNullValues: the lanes of sel whose value in column col is valid
FilterNullValues(keys, col, sel) == SelectSeq(sel, LAMBDA idx : keys[idx][col] # NULL)

AllValid(keys, col) == \A i \in 1..Len(keys) : keys[i][col] # NULL

IncrementalSelectionVector(n) == [i \in 1..n |-> i]

\* the loop of PrepareKeys over the equality columns only
RECURSIVE FilterColumnsOfEqualities(_, _, _)
FilterColumnsOfEqualities(keys, col, sel) ==
    IF col > EqualityCount THEN sel
    ELSE IF ~NullValuesAreEqual(conditions[col]) /\ ~AllValid(keys, col)
         THEN FilterColumnsOfEqualities(keys, col + 1, FilterNullValues(keys, col, sel))
         ELSE FilterColumnsOfEqualities(keys, col + 1, sel)

\* the loop of PrepareKeys over the key columns from col on
RECURSIVE FilterColumns(_, _, _)
FilterColumns(keys, col, sel) ==
    IF col > ColumnCount THEN sel
    ELSE IF ~NullValuesAreEqual(conditions[col]) /\ ~AllValid(keys, col)
         THEN FilterColumns(keys, col + 1, FilterNullValues(keys, col, sel))
         ELSE FilterColumns(keys, col + 1, sel)

\* PrepareKeys that filters the null keys of the build side of every join type
PrepareKeysAlwaysFilter(keys, build_side) ==
    FilterColumns(keys, 1, IncrementalSelectionVector(Len(keys)))

\* the selection of the lanes that remain (added_count is its length)
PrepareKeys(keys, build_side) ==
    IF build_side /\ IsRightOuterJoin(join_type)
    THEN IncrementalSelectionVector(Len(keys))
    ELSE FilterColumns(keys, 1, IncrementalSelectionVector(Len(keys)))

\* ------------------------------------------------------------ Build
\* the correlated aggregate: COUNT(*) and COUNT(key) per group of correlated columns
RECURSIVE AddChunk(_, _)
AddChunk(counts, keys) ==
    IF keys = <<>> THEN counts
    ELSE LET k == Head(keys)
             g == [i \in 1..correlated_types |-> k[i]]
             c == counts[g]
         IN AddChunk([counts EXCEPT ![g] =
                        [count_star |-> c.count_star + 1,
                         count |-> c.count + (IF k[correlated_types + 1] # NULL THEN 1 ELSE 0)]],
                     Tail(keys))

\* the rows that AddChunk has counted: the sum of COUNT(*) over the groups
RECURSIVE SumCountStar(_, _)
SumCountStar(counts, groups) ==
    IF groups = {} THEN 0
    ELSE LET g == CHOOSE x \in groups : TRUE
         IN counts[g].count_star + SumCountStar(counts, groups \ {g})

RowsFed == SumCountStar(correlated_counts, DOMAIN correlated_counts)

BuildRow(key, payload) ==
    [keys |-> key, payload |-> payload, found |-> FALSE, at_pointer_offset |-> Hash(key)]

\* a Build that a finalized table does not reject
BuildAllowedAlways == TRUE

\* D_ASSERT(!finalized): Build is rejected once the table is finalized
BuildAllowed == ~finalized

Build(keys) ==
    /\ BuildAllowed
    /\ MaxValue(Count, RowsFed) + Len(keys) <= build_limit
    /\ correlated_counts' =
         IF join_type = "MARK" /\ correlated_types > 0
         THEN AddChunk(correlated_counts, keys) ELSE correlated_counts
    /\ LET current_sel == PrepareKeys(keys, TRUE)
           added_count == Len(current_sel)
           rows == [i \in 1..added_count |-> BuildRow(keys[current_sel[i]], Count + i)]
           hash_values == [i \in 1..added_count |-> Hash(keys[current_sel[i]])]
       IN /\ has_null' = (has_null \/ added_count < Len(keys))
          /\ block_collection' = AppendRows(block_collection, rows)
          /\ histogram_ptr' = UpdateHistogram(histogram_ptr, hash_values)
    /\ fed_null_key' =
         (fed_null_key \/ \E i \in 1..Len(keys) : \E c \in 1..ColumnCount :
                            ~NullValuesAreEqual(conditions[c]) /\ keys[i][c] = NULL)
    /\ UNCHANGED <<external, config, finalized, hash_map, bitmask, pinned_handles, ss, result,
                   output, matched_by_probe, current_radix_bits, hash_map_reads,
                   outer_scan, reduction>>

\* ------------------------------------------------------------ Finalize
\* InsertHashes for one row without the link to the previous head of the chain
InsertHashNoLink(st, a) ==
    LET index == st.rows[BlockOf(a)][PosOf(a)].at_pointer_offset % (st.mask + 1)
    IN [st EXCEPT !.rows[BlockOf(a)][PosOf(a)].at_pointer_offset = 0,
                  !.map[index] = a]

\* InsertHashes for one row that keeps the hash in the row and stores no
\* next-pointer over it
InsertHashKeepHash(st, a) ==
    LET index == st.rows[BlockOf(a)][PosOf(a)].at_pointer_offset % (st.mask + 1)
    IN [st EXCEPT !.map[index] = a]

\* InsertHashes for one row: push the row at the head of its slot's chain
InsertHash(st, a) ==
    LET index == st.rows[BlockOf(a)][PosOf(a)].at_pointer_offset % (st.mask + 1)
    IN [st EXCEPT !.rows[BlockOf(a)][PosOf(a)].at_pointer_offset = st.map[index],
                  !.map[index] = a]

\* InsertHashes that leaves out the last row it is given
RECURSIVE InsertHashesButLast(_, _)
InsertHashesButLast(st, addrs) ==
    IF Len(addrs) <= 1 THEN st
    ELSE InsertHashesButLast(InsertHash(st, Head(addrs)), Tail(addrs))

\* InsertHashes that goes through its rows from the last to the first
RECURSIVE InsertHashesBackwards(_, _)
InsertHashesBackwards(st, addrs) ==
    IF addrs = <<>> THEN st
    ELSE InsertHash(InsertHashesBackwards(st, Tail(addrs)), Head(addrs))

RECURSIVE InsertHashes(_, _)
InsertHashes(st, addrs) ==
    IF addrs = <<>> THEN st ELSE InsertHashes(InsertHash(st, Head(addrs)), Tail(addrs))

\* a capacity that is not doubled: no more than one slot per row
FinalizeCapacityNoDoubling ==
    NextPowerOfTwo(MaxValue(Count, BlockSizeInPointers + 1))

\* capacity of Finalize: at least 50% empty space, and a power of two
FinalizeCapacity ==
    NextPowerOfTwo(MaxValue(Count * 2, BlockSizeInPointers + 1))

Finalize ==
    /\ ~finalized
    /\ LET capacity == FinalizeCapacity
           st == InsertHashes([rows |-> block_collection,
                               map |-> [s \in 0..(capacity - 1) |-> 0],
                               mask |-> capacity - 1],
                              [a \in 1..Count |-> a])
       IN /\ bitmask' = capacity - 1
          /\ hash_map' = st.map
          /\ block_collection' = st.rows
    /\ pinned_handles' = [b \in 1..Len(block_collection) |-> b]
    /\ finalized' = TRUE
    /\ UNCHANGED <<external, config, histogram_ptr, has_null, correlated_counts, ss, result, output,
                   matched_by_probe, current_radix_bits, fed_null_key, hash_map_reads,
                   outer_scan, reduction>>

\* ------------------------------------------------------------ Probe
\* the build row a result row refers to: its payload, NULL, or no build column
NoColumn == -1

ResultRow(lane, build, mark) == [lane |-> lane, build |-> build, mark |-> mark]

\* InitializeScanStructure: found_match is allocated for every kind but INNER
InitializeScanStructure(keys) ==
    [active |-> TRUE, keys |-> keys,
     count |-> Len(PrepareKeys(keys, FALSE)),
     sel_vector |-> PrepareKeys(keys, FALSE),
     pointers |-> [i \in 1..Len(keys) |-> 0],
     found_match |-> IF join_type # "INNER"
                     THEN [i \in 1..STANDARD_VECTOR_SIZE |-> FALSE] ELSE <<>>,
     finished |-> FALSE,
     visited |-> [i \in 1..Len(keys) |-> <<>>]]

\* ApplyBitmask(hashes, sel, count, pointers) followed by the load of the slot in
\* InitializeSelectionVector: the chain head of each lane of current_sel
SlotHeads(keys, current_sel) ==
    [i \in 1..Len(keys) |->
        IF i \in Range(current_sel) THEN hash_map[ApplyBitmask(Hash(keys[i]))] ELSE 0]

\* InitializeSelectionVector that fills the selection from the last lane to the first
InitializeSelectionVectorReversed(s, current_sel) ==
    LET ptrs == SlotHeads(s.keys, current_sel)
        sel == SelectSeq(current_sel, LAMBDA idx : ptrs[idx] # 0)
        rev == [i \in 1..Len(sel) |-> sel[Len(sel) + 1 - i]]
    IN [s EXCEPT !.pointers = ptrs, !.sel_vector = rev, !.count = Len(rev)]

\* InitializeSelectionVector: keep the lanes whose chain is not empty
InitializeSelectionVector(s, current_sel) ==
    LET ptrs == SlotHeads(s.keys, current_sel)
        sel == SelectSeq(current_sel, LAMBDA idx : ptrs[idx] # 0)
    IN [s EXCEPT !.pointers = ptrs, !.sel_vector = sel, !.count = Len(sel)]

ProbeScan(keys) ==
    LET s == InitializeScanStructure(keys)
    IN IF s.count = 0 THEN s ELSE InitializeSelectionVector(s, s.sel_vector)

\* ------------------------------------------------------------ predicates
\* one join predicate between a probe value l and a build value r
PredHolds(cmp, l, r) ==
    CASE cmp = "COMPARE_EQUAL" -> l # NULL /\ r # NULL /\ l = r
      [] cmp = "COMPARE_NOT_DISTINCT_FROM" -> l = r
      [] cmp = "COMPARE_DISTINCT_FROM" -> l # r
      [] cmp = "COMPARE_GREATERTHAN" -> l # NULL /\ r # NULL /\ l > r
      [] OTHER -> FALSE

\* every join predicate holds between probe key p and build key b
Matches(p, b) == \A i \in 1..ColumnCount : PredHolds(conditions[i], p[i], b[i])

\* RowOperations::Match on the current pointers: the lanes of the scan selection
\* that match, and those that do not, both in selection order
ResolvePredicates(s) ==
    [match_sel |-> SelectSeq(s.sel_vector,
                     LAMBDA idx : Matches(s.keys[idx], RowAt(s.pointers[idx]).keys)),
     no_match_sel |-> SelectSeq(s.sel_vector,
                     LAMBDA idx : ~Matches(s.keys[idx], RowAt(s.pointers[idx]).keys))]

\* found_match[idx] = true for the lanes of sel (when found_match is allocated)
\* ScanInnerJoin that never records a match
SetFoundMatchNever(s, sel) == s

SetFoundMatch(s, sel) ==
    IF s.found_match = <<>> THEN s
    ELSE [s EXCEPT !.found_match =
            [i \in 1..Len(s.found_match) |-> s.found_match[i] \/ i \in Range(sel)]]

\* AdvancePointers with its loop ending one lane early: the last lane of sel is lost
AdvancePointersOffByOne(s, sel) ==
    LET short == SubSeq(sel, 1, Len(sel) - 1)
        ptrs == [i \in 1..Len(s.pointers) |->
                    IF i \in Range(short) THEN RowAt(s.pointers[i]).at_pointer_offset
                    ELSE s.pointers[i]]
        new_sel == SelectSeq(short, LAMBDA idx : ptrs[idx] # 0)
    IN [s EXCEPT !.pointers = ptrs, !.sel_vector = new_sel, !.count = Len(new_sel)]

\* AdvancePointers whose lanes follow two next pointers at a time
AdvancePointersSkip(s, sel) ==
    LET next(a) == RowAt(a).at_pointer_offset
        ptrs == [i \in 1..Len(s.pointers) |->
                    IF i \in Range(sel)
                    THEN (IF next(s.pointers[i]) = 0 THEN 0 ELSE next(next(s.pointers[i])))
                    ELSE s.pointers[i]]
        new_sel == SelectSeq(sel, LAMBDA idx : ptrs[idx] # 0)
    IN [s EXCEPT !.pointers = ptrs, !.sel_vector = new_sel, !.count = Len(new_sel)]

\* AdvancePointers(sel, sel_count): the lanes of sel follow their next pointer; the
\* lanes whose chain goes on form the new selection
AdvancePointers(s, sel) ==
    LET ptrs == [i \in 1..Len(s.pointers) |->
                    IF i \in Range(sel) THEN RowAt(s.pointers[i]).at_pointer_offset
                    ELSE s.pointers[i]]
        new_sel == SelectSeq(sel, LAMBDA idx : ptrs[idx] # 0)
    IN [s EXCEPT !.pointers = ptrs, !.sel_vector = new_sel, !.count = Len(new_sel)]

\* the build rows that ResolvePredicates compares with each probe lane: the row under
\* the lane's pointer, for every lane of the scan selection (a record of the walk,
\* kept beside the cursor; the code does not store it)
Visit(s) ==
    [s EXCEPT !.visited = [i \in DOMAIN @ |->
                              IF i \in Range(s.sel_vector)
                              THEN Append(@[i], s.pointers[i]) ELSE @[i]]]

\* ------------------------------------------------------------ INNER / RIGHT
RECURSIVE ScanInnerJoin(_)
ScanInnerJoin(s) ==
    LET result_vector == ResolvePredicates(s).match_sel
        s1 == SetFoundMatch(Visit(s), result_vector)
    IN IF Len(result_vector) > 0
       THEN [ss |-> s1, result_vector |-> result_vector]
       ELSE LET s2 == AdvancePointers(s1, s1.sel_vector)
            IN IF s2.count = 0
               THEN [ss |-> s2, result_vector |-> <<>>]
               ELSE ScanInnerJoin(s2)

\* the value of a Next method: the cursor, the result chunk, and the rows whose
\* found flag it stores true
NextInnerJoin(s) ==
    IF s.count = 0 THEN [ss |-> s, result |-> <<>>, stores |-> {}]
    ELSE LET r == ScanInnerJoin(s)
             rv == r.result_vector
         IN IF Len(rv) > 0
            THEN [ss |-> AdvancePointers(r.ss, r.ss.sel_vector),
                  result |-> [i \in 1..Len(rv) |->
                                ResultRow(rv[i], RowAt(r.ss.pointers[rv[i]]).payload, "none")],
                  stores |-> IF IsRightOuterJoin(join_type)
                             THEN {r.ss.pointers[rv[i]] : i \in 1..Len(rv)} ELSE {}]
            ELSE [ss |-> r.ss, result |-> <<>>, stores |-> {}]

\* ------------------------------------------------------------ LEFT / OUTER
NextLeftJoin(s) ==
    LET r == NextInnerJoin(s)
    IN IF Len(r.result) = 0
       THEN LET sel == SelectSeq(IncrementalSelectionVector(Len(s.keys)),
                                 LAMBDA i : ~r.ss.found_match[i])
            IN [ss |-> [r.ss EXCEPT !.finished = TRUE],
                result |-> [i \in 1..Len(sel) |-> ResultRow(sel[i], NULL, "none")],
                stores |-> r.stores]
       ELSE r

\* ------------------------------------------------------------ SEMI / ANTI
\* ScanKeyMatches that looks at the head of each chain only
ScanKeyMatchesHeadOnly(s) ==
    IF s.count = 0 THEN s
    ELSE SetFoundMatch([s EXCEPT !.count = 0, !.sel_vector = <<>>],
                       ResolvePredicates(s).match_sel)

RECURSIVE ScanKeyMatches(_)
ScanKeyMatches(s) ==
    IF s.count = 0 THEN s
    ELSE LET m == ResolvePredicates(s)
         IN ScanKeyMatches(AdvancePointers(SetFoundMatch(Visit(s), m.match_sel),
                                           m.no_match_sel))

\* NextSemiOrAntiJoin that goes over the lanes kept by PrepareKeys only
NextSemiOrAntiJoinPrepared(MATCH, s) ==
    LET sel == SelectSeq(PrepareKeys(s.keys, FALSE),
                         LAMBDA i : s.found_match[i] = MATCH)
    IN [i \in 1..Len(sel) |-> ResultRow(sel[i], NoColumn, "none")]

NextSemiOrAntiJoin(MATCH, s) ==
    LET sel == SelectSeq(IncrementalSelectionVector(Len(s.keys)),
                         LAMBDA i : s.found_match[i] = MATCH)
    IN [i \in 1..Len(sel) |-> ResultRow(sel[i], NoColumn, "none")]

NextSemiJoin(s) ==
    LET s1 == ScanKeyMatches(s)
    IN [ss |-> [s1 EXCEPT !.finished = TRUE],
        result |-> NextSemiOrAntiJoin(TRUE, s1), stores |-> {}]

NextAntiJoin(s) ==
    LET s1 == ScanKeyMatches(s)
    IN [ss |-> [s1 EXCEPT !.finished = TRUE],
        result |-> NextSemiOrAntiJoin(FALSE, s1), stores |-> {}]

\* ------------------------------------------------------------ MARK
MarkValue(valid, b) == IF ~valid THEN "null" ELSE IF b THEN "true" ELSE "false"

\* the validity mask of the mark vector after the loop over the key columns:
\* a column with a null sets the mask of every row
RECURSIVE MarkMaskFromKeys(_, _, _)
MarkMaskFromKeys(mask, keys, col) ==
    IF col > ColumnCount THEN mask
    ELSE IF NullValuesAreEqual(conditions[col]) \/ AllValid(keys, col)
         THEN MarkMaskFromKeys(mask, keys, col + 1)
         ELSE MarkMaskFromKeys([i \in 1..Len(keys) |-> keys[i][col] # NULL], keys, col + 1)

ConstructMarkJoinResult(s) ==
    LET n == Len(s.keys)
        mask == MarkMaskFromKeys([i \in 1..n |-> TRUE], s.keys, 1)
        bool_result == [i \in 1..n |-> IF s.found_match # <<>> THEN s.found_match[i] ELSE FALSE]
        mask2 == [i \in 1..n |-> mask[i] /\ ~(has_null /\ ~bool_result[i])]
    IN [i \in 1..n |-> ResultRow(i, NoColumn, MarkValue(mask2[i], bool_result[i]))]

\* FetchAggregates: the counts of the group of each lane
FetchAggregates(keys) ==
    [i \in 1..Len(keys) |-> correlated_counts[[c \in 1..correlated_types |-> keys[i][c]]]]

\* the correlated mark result without the reset of the mask of an empty group
CorrelatedMarkResultNoReset(s) ==
    LET n == Len(s.keys)
        counts == FetchAggregates(s.keys)
        mask == [i \in 1..n |-> s.keys[i][ColumnCount] # NULL]
        bool_result == [i \in 1..n |-> IF s.found_match # <<>> THEN s.found_match[i] ELSE FALSE]
        mask2 == [i \in 1..n |->
                    IF ~bool_result[i] /\ counts[i].count_star > counts[i].count THEN FALSE
                    ELSE mask[i]]
    IN [i \in 1..n |-> ResultRow(i, NoColumn, MarkValue(mask2[i], bool_result[i]))]

CorrelatedMarkResult(s) ==
    LET n == Len(s.keys)
        counts == FetchAggregates(s.keys)
        mask == [i \in 1..n |-> s.keys[i][ColumnCount] # NULL]
        bool_result == [i \in 1..n |-> IF s.found_match # <<>> THEN s.found_match[i] ELSE FALSE]
        mask2 == [i \in 1..n |->
                    IF counts[i].count_star = 0 THEN TRUE
                    ELSE IF ~bool_result[i] /\ counts[i].count_star > counts[i].count THEN FALSE
                    ELSE mask[i]]
    IN [i \in 1..n |-> ResultRow(i, NoColumn, MarkValue(mask2[i], bool_result[i]))]

NextMarkJoin(s) ==
    LET s1 == ScanKeyMatches(s)
    IN [ss |-> [s1 EXCEPT !.finished = TRUE],
        result |-> IF correlated_types = 0 THEN ConstructMarkJoinResult(s1)
                   ELSE CorrelatedMarkResult(s1),
        stores |-> {}]

\* ------------------------------------------------------------ SINGLE
\* the loop of NextSingleJoin cut after the head of each chain
ScanSingleMatchesHeadOnly(s, result_sel) ==
    IF s.count = 0 THEN [ss |-> s, result_sel |-> result_sel]
    ELSE LET m == ResolvePredicates(s)
         IN [ss |-> SetFoundMatch([s EXCEPT !.count = 0, !.sel_vector = <<>>], m.match_sel),
             result_sel |-> result_sel \o m.match_sel]

\* the loop of NextSingleJoin: the cursor and result_sel when count reaches 0
RECURSIVE ScanSingleMatches(_, _)
ScanSingleMatches(s, result_sel) ==
    IF s.count = 0 THEN [ss |-> s, result_sel |-> result_sel]
    ELSE LET m == ResolvePredicates(s)
         IN ScanSingleMatches(AdvancePointers(SetFoundMatch(Visit(s), m.match_sel),
                                              m.no_match_sel),
                              result_sel \o m.match_sel)

NextSingleJoin(s) ==
    LET r == ScanSingleMatches(s, <<>>)
    IN [ss |-> [r.ss EXCEPT !.finished = TRUE],
        result |-> [i \in 1..Len(s.keys) |->
                      ResultRow(i, IF i \in Range(r.result_sel)
                                   THEN RowAt(r.ss.pointers[i]).payload ELSE NULL, "none")],
        stores |-> {}]

\* ------------------------------------------------------------ ScanStructure::Next
\* ScanStructure::Next without the return on a finished scan
ScanNextAgain(s) ==
    CASE join_type \in {"INNER", "RIGHT"} -> NextInnerJoin(s)
      [] join_type = "SEMI" -> NextSemiJoin(s)
      [] join_type = "MARK" -> NextMarkJoin(s)
      [] join_type = "ANTI" -> NextAntiJoin(s)
      [] join_type \in {"OUTER", "LEFT"} -> NextLeftJoin(s)
      [] join_type = "SINGLE" -> NextSingleJoin(s)

ScanNext(s) ==
    IF s.finished THEN [ss |-> s, result |-> <<>>, stores |-> {}]
    ELSE CASE join_type \in {"INNER", "RIGHT"} -> NextInnerJoin(s)
           [] join_type = "SEMI" -> NextSemiJoin(s)
           [] join_type = "MARK" -> NextMarkJoin(s)
           [] join_type = "ANTI" -> NextAntiJoin(s)
           [] join_type \in {"OUTER", "LEFT"} -> NextLeftJoin(s)
           [] join_type = "SINGLE" -> NextSingleJoin(s)

\* a store that flips the flag
StoreFoundToggle(blocks, stores) ==
    [b \in 1..Len(blocks) |->
        [i \in 1..Len(blocks[b]) |->
            IF Addr(b, i) \in stores THEN [blocks[b][i] EXCEPT !.found = ~@]
            ELSE blocks[b][i]]]

\* a store that reaches only the first row of each block
StoreFoundFirstOfBlock(blocks, stores) ==
    [b \in 1..Len(blocks) |->
        [i \in 1..Len(blocks[b]) |->
            IF Addr(b, i) \in stores /\ i = 1
            THEN [blocks[b][i] EXCEPT !.found = TRUE]
            ELSE blocks[b][i]]]

\* Store<bool>(true, ptr + tuple_size) for the rows of `stores`
StoreFound(blocks, stores) ==
    [b \in 1..Len(blocks) |->
        [i \in 1..Len(blocks[b]) |->
            IF Addr(b, i) \in stores THEN [blocks[b][i] EXCEPT !.found = TRUE]
            ELSE blocks[b][i]]]

\* the build rows that some lane of a batch matches
MatchedRows(keys) ==
    {a \in AllAddrs : \E i \in 1..Len(keys) : Matches(keys[i], RowAt(a).keys)}

\* the slots of hash_map that InitializeSelectionVector loads for a batch: none
\* when PrepareKeys keeps no lane (Probe returns before), else the slots of the
\* lanes it keeps
SlotsLoaded(keys) ==
    LET current_sel == PrepareKeys(keys, FALSE)
    IN {ApplyBitmask(Hash(keys[current_sel[i]])) : i \in 1..Len(current_sel)}

\* a thread probes a batch: JoinHashTable::Probe
Probe(t, keys) ==
    /\ finalized
    /\ ~ss[t].active
    /\ rescan \/ ss[t].keys = <<>>
    /\ ~probe_ended
    /\ ss' = [ss EXCEPT ![t] = ProbeScan(keys)]
    /\ hash_map_reads' = [hash_map_reads EXCEPT ![t] = SlotsLoaded(keys)]
    /\ result' = [result EXCEPT ![t] = <<>>]
    /\ output' = [output EXCEPT ![t] = <<>>]
    /\ matched_by_probe' = IF IsRightOuterJoin(join_type)
                           THEN matched_by_probe \cup MatchedRows(keys)
                           ELSE matched_by_probe
    /\ UNCHANGED <<external, config, table, outer_scan>>

\* a thread calls Next on its cursor; an empty result chunk ends the scan, and a
\* thread that probes further batches then drops the cursor and its chunks
NextCall(t) ==
    /\ ss[t].active
    /\ LET Returned(r) ==
              LET done == r.result = <<>>
              IN /\ ss' = [ss EXCEPT ![t] = IF done /\ rescan THEN EmptyScan
                                            ELSE [r.ss EXCEPT !.active = ~done]]
                 /\ result' = [result EXCEPT ![t] = r.result]
                 /\ output' = [output EXCEPT ![t] =
                                 IF done THEN (IF rescan THEN <<>> ELSE @)
                                 ELSE Append(@, r.result)]
                 /\ block_collection' = StoreFound(block_collection, r.stores)
                 /\ hash_map_reads' = IF done /\ rescan
                                      THEN [hash_map_reads EXCEPT ![t] = {}]
                                      ELSE hash_map_reads
       IN Returned(ScanNext(ss[t]))
    /\ UNCHANGED <<external, config, histogram_ptr, has_null, finalized, hash_map, bitmask,
                   pinned_handles, correlated_counts, matched_by_probe,
                   current_radix_bits, fed_null_key, outer_scan, reduction>>

\* ------------------------------------------------------------ ScanFullOuter
\* the loops of ScanFullOuter without the state.position++ before the break
RECURSIVE ScanBlocksNoAdvance(_, _, _)
ScanBlocksNoAdvance(bp, pos, key_locations) ==
    IF bp >= Len(block_collection)
    THEN [block_position |-> bp, position |-> pos, key_locations |-> key_locations]
    ELSE IF pos >= Len(block_collection[bp + 1])
    THEN ScanBlocksNoAdvance(bp + 1, 0, key_locations)
    ELSE IF RowAt(Addr(bp + 1, pos + 1)).found
    THEN ScanBlocksNoAdvance(bp, pos + 1, key_locations)
    ELSE IF Len(key_locations) + 1 = STANDARD_VECTOR_SIZE
    THEN [block_position |-> bp, position |-> pos,
          key_locations |-> Append(key_locations, Addr(bp + 1, pos + 1))]
    ELSE ScanBlocksNoAdvance(bp, pos + 1, Append(key_locations, Addr(bp + 1, pos + 1)))

\* the two loops of ScanFullOuter from block bp (0-based) and position pos, with
\* the key_locations collected so far: the scan state it ends in and the rows
RECURSIVE ScanBlocks(_, _, _)
ScanBlocks(bp, pos, key_locations) ==
    IF bp >= Len(block_collection)
    THEN [block_position |-> bp, position |-> pos, key_locations |-> key_locations]
    ELSE IF pos >= Len(block_collection[bp + 1])
    THEN ScanBlocks(bp + 1, 0, key_locations)
    ELSE IF RowAt(Addr(bp + 1, pos + 1)).found
    THEN ScanBlocks(bp, pos + 1, key_locations)
    ELSE IF Len(key_locations) + 1 = STANDARD_VECTOR_SIZE
    THEN [block_position |-> bp, position |-> pos + 1,
          key_locations |-> Append(key_locations, Addr(bp + 1, pos + 1))]
    ELSE ScanBlocks(bp, pos + 1, Append(key_locations, Addr(bp + 1, pos + 1)))

\* a thread calls ScanFullOuter with the shared scan state (under state.lock):
\* the rows it finds go to its result chunk with the probe side NULL
ScanFullOuter(t) ==
    /\ probe_ended
    /\ LET r == ScanBlocks(state.block_position, state.position, <<>>)
           chunk == [i \in 1..Len(r.key_locations) |->
                       ResultRow(NULL, RowAt(r.key_locations[i]).payload, "none")]
       IN /\ state' = [block_position |-> r.block_position, position |-> r.position]
          /\ result' = [result EXCEPT ![t] = chunk]
          /\ full_outer_output' = full_outer_output \o chunk
    /\ UNCHANGED <<external, config, table, ss, output, matched_by_probe, hash_map_reads,
                   probe_ended>>

\* the probe side is exhausted: every scan has been driven to its end
EndProbe ==
    /\ finalized /\ ~probe_ended
    /\ IsRightOuterJoin(join_type)
    /\ \A t \in threads : ~ss[t].active
    /\ probe_ended' = TRUE
    /\ UNCHANGED <<external, config, table, ss, result, output, matched_by_probe, hash_map_reads,
                   state, full_outer_output>>

\* ------------------------------------------------------------ ReduceHistogram
\* layout.GetRowWidth(), in units of memory
RowWidth == 1
\* the memory budget of a partition, in the same units
MemoryBudget == 2
\* total_string_size / total_count of the merged tables
AvgStringSizes == {0, 1}

\* the sum of the counters lo..hi of a histogram
RECURSIVE SumRange(_, _, _)
SumRange(hist, lo, hi) == IF lo > hi THEN 0 ELSE hist[lo] + SumRange(hist, lo + 1, hi)

SumHistogram(hist) == SumRange(hist, 0, Cardinality(DOMAIN hist) - 1)

\* RadixPartitioning::ReduceHistogram that keeps the low radix bits of a partition
\* instead of the high ones
RadixReduceHistogramLowBits(hist, from, to) ==
    [p \in 0..(NumPartitions(to) - 1) |->
        LET same == {i \in DOMAIN hist : i % NumPartitions(to) = p}
        IN SumRange([j \in 0..(NumPartitions(from) - 1) |->
                        IF j \in same THEN hist[j] ELSE 0],
                    0, NumPartitions(from) - 1)]

\* the counters i.. of hist added to the counter of reduced that their partition
\* falls in when the lowest `shift` radix bits are dropped
RECURSIVE ReduceInto(_, _, _, _)
ReduceInto(reduced, hist, i, shift) ==
    IF i \notin DOMAIN hist THEN reduced
    ELSE ReduceInto([reduced EXCEPT ![i \div Pow2(shift)] = @ + hist[i]], hist, i + 1, shift)

\* RadixPartitioning::ReduceHistogram(hist, from, to)
RadixReduceHistogram(hist, from, to) ==
    ReduceInto(InitializeHistogram(to), hist, 0, from - to)

\* JoinHashTable::PartitionsFitInMemory
PartitionsFitInMemory(histogram, average_row_size) == FALSE

\* the fit check that the reduction is meant to make: the estimated size of every
\* partition is within the memory budget
PartitionsFitBudget(histogram, average_row_size) ==
    \A p \in DOMAIN histogram : histogram[p] * average_row_size <= MemoryBudget

\* a loop that takes the histogram reduced by one bit in its first pass
ReduceLoopAccepting(hist, bits, avg_row_size) ==
    IF bits > 1
    THEN [histogram_ptr |-> RadixReduceHistogram(hist, bits, bits - 1),
          reduced_hist |-> RadixReduceHistogram(hist, bits, bits - 1)]
    ELSE [histogram_ptr |-> hist, reduced_hist |-> <<>>]

\* the loop of JoinHashTable::ReduceHistogram on histogram_ptr = hist: the
\* histogram it leaves in histogram_ptr and the last reduced_hist it computed
\* (the loop does not change current_radix_bits)
RECURSIVE ReduceLoop(_, _, _)
ReduceLoop(hist, bits, avg_row_size) ==
    IF bits > 1
    THEN LET reduced_hist == RadixReduceHistogram(hist, bits, bits - 1)
         IN IF PartitionsFitInMemory(reduced_hist, avg_row_size)
            THEN ReduceLoop(reduced_hist, bits, avg_row_size)
            ELSE [histogram_ptr |-> hist, reduced_hist |-> reduced_hist]
    ELSE [histogram_ptr |-> hist, reduced_hist |-> <<>>]

\* JoinHashTable::ReduceHistogram(avg_string_size), called when the build is over
ReduceHistogram(avg_string_size) ==
    /\ ~finalized
    /\ reduction.call = "none"
    /\ LET avg_row_size == avg_string_size + RowWidth
           r == ReduceLoop(histogram_ptr, current_radix_bits, avg_row_size)
       IN /\ histogram_ptr' = r.histogram_ptr
          /\ reduction' = [call |-> "JoinHashTable::ReduceHistogram",
                           avg_row_size |-> avg_row_size,
                           to |-> current_radix_bits - 1,
                           reduced_hist |-> r.reduced_hist]
    /\ UNCHANGED <<external, config, block_collection, has_null, finalized, hash_map, bitmask,
                   pinned_handles, correlated_counts, current_radix_bits, fed_null_key,
                   ss, result, output, matched_by_probe, hash_map_reads, outer_scan>>

\* RadixPartitioning::ReduceHistogram applied to the histogram of the table, from
\* its radix bits to `to` bits
RadixReduceCall(to) ==
    /\ ~finalized
    /\ reduction.call = "none"
    /\ reduction' = [call |-> "RadixPartitioning::ReduceHistogram",
                     avg_row_size |-> 0,
                     to |-> to,
                     reduced_hist |-> RadixReduceHistogram(histogram_ptr,
                                                           current_radix_bits, to)]
    /\ UNCHANGED <<external, config, block_collection, histogram_ptr, has_null, finalized,
                   hash_map, bitmask, pinned_handles, correlated_counts,
                   current_radix_bits, fed_null_key, ss, result, output,
                   matched_by_probe, hash_map_reads, outer_scan>>

\* values of a counter that is read past the end of the histogram array
JunkCounters == {0, 1}

\* passes of the while loop of ReduceHistogram that are followed at most
MaxReducePasses == INITIAL_RADIX_BITS + 1

\* the 2^bits counters that RadixPartitioning::ReduceHistogram reads from
\* hist: the counters of an array that is shorter are read past its end
ReadCounters(hist, bits, junk) ==
    [p \in 0..(NumPartitions(bits) - 1) |-> IF p \in DOMAIN hist THEN hist[p] ELSE junk[p]]

\* JoinHashTable::ReduceHistogram(avg_string_size) up to the while loop
ReduceEnter(avg_string_size) ==
    /\ ~finalized
    /\ reduction.call = "none"
    /\ reduction' = [call |-> "while", avg_row_size |-> avg_string_size + RowWidth,
                     to |-> current_radix_bits - 1, reduced_hist |-> <<>>, passes |-> 0]
    /\ UNCHANGED <<external, config, block_collection, histogram_ptr, has_null, finalized,
                   hash_map, bitmask, pinned_handles, correlated_counts,
                   current_radix_bits, fed_null_key, ss, result, output,
                   matched_by_probe, hash_map_reads, outer_scan>>

\* one pass of the while loop, for either result of PartitionsFitInMemory: the
\* reduced histogram is taken and the loop continues, or the loop breaks.  No
\* statement of the loop assigns current_radix_bits.  A pass after a taken
\* reduction reads 2^current_radix_bits counters from the shorter array: it
\* reads some values, or the read ends the query
ReducePass ==
    /\ reduction.call = "while"
    /\ reduction.passes < MaxReducePasses
    /\ IF current_radix_bits > 1
       THEN \/ \E fits \in BOOLEAN :
                 \E junk \in [(0..(NumPartitions(current_radix_bits) - 1)) \ DOMAIN histogram_ptr
                                -> JunkCounters] :
                    LET Pass(reduced_hist) ==
                           IF fits
                           THEN /\ histogram_ptr' = reduced_hist
                                /\ reduction' = [reduction EXCEPT !.passes = @ + 1,
                                                                  !.reduced_hist = reduced_hist]
                           ELSE /\ UNCHANGED histogram_ptr
                                /\ reduction' = [reduction EXCEPT !.call = "returned",
                                                                  !.passes = @ + 1,
                                                                  !.reduced_hist = reduced_hist]
                    IN Pass(RadixReduceHistogram(
                               ReadCounters(histogram_ptr, current_radix_bits, junk),
                               current_radix_bits, current_radix_bits - 1))
            \/ /\ DOMAIN histogram_ptr # 0..(NumPartitions(current_radix_bits) - 1)
               /\ reduction' = [reduction EXCEPT !.call = "crashed", !.passes = @ + 1]
               /\ UNCHANGED histogram_ptr
       ELSE /\ reduction' = [reduction EXCEPT !.call = "returned"]
            /\ UNCHANGED histogram_ptr
    /\ UNCHANGED <<external, config, block_collection, has_null, finalized, hash_map, bitmask,
                   pinned_handles, correlated_counts, current_radix_bits, fed_null_key,
                   ss, result, output, matched_by_probe, hash_map_reads, outer_scan>>
\* ------------------------------------------------------------ local tables
\* Storage::BLOCK_SIZE of a heap block, in heap cells (scaled down)
HeapBlockSize == 4
\* the strings of the variable-length column (long enough not to be inlined)
StringValues == {<<7>>, <<8>>, <<7, 9>>}
\* cells of the largest heap row: its uint32_t size and its string
MaxEntrySize == 3
\* the buffers of two heap blocks lie HeapStride cells apart: the buffer of
\* block id starts at address id * HeapStride
HeapStride == MaxValue(HeapBlockSize, BlockCapacity * MaxEntrySize) + 1
HeapBase(id) == id * HeapStride

\* a table a worker builds (CopyEmpty): the collections of the constructor,
\* the partition collections, the rows it was fed (in order) and how far the
\* worker has come with it
EmptyTable ==
    [block_collection |-> <<>>, string_heap |-> <<>>,
     swizzled_block_collection |-> <<>>, swizzled_string_heap |-> <<>>,
     partition_block_collections |-> <<>>,
     histogram_ptr |-> InitializeHistogram(INITIAL_RADIX_BITS),
     has_null |-> FALSE, next_block_id |-> 1, fed |-> <<>>, phase |-> "build"]

CountOf(blocks) == Len(Flatten(blocks))

\* RowDataCollection::Build of the heap: an entry goes to the last block while
\* it has room for it, else to a new block; ptrs are the addresses of the entries
RECURSIVE AppendToHeap(_, _)
AppendToHeap(st, entries) ==
    IF entries = <<>> THEN st
    ELSE LET e == Head(entries)
             n == Len(st.blocks)
         IN IF n > 0 /\ Len(st.blocks[n].bytes) + Len(e) <= HeapBlockSize
            THEN AppendToHeap(
                    [blocks |-> [st.blocks EXCEPT ![n] =
                                    [@ EXCEPT !.bytes = @ \o e, !.count = @ + 1]],
                     ptrs |-> Append(st.ptrs,
                                     HeapBase(st.blocks[n].id) + Len(st.blocks[n].bytes)),
                     next_id |-> st.next_id],
                    Tail(entries))
            ELSE AppendToHeap(
                    [blocks |-> Append(st.blocks,
                                       [id |-> st.next_id, bytes |-> e, count |-> 1]),
                     ptrs |-> Append(st.ptrs, HeapBase(st.next_id)),
                     next_id |-> st.next_id + 1],
                    Tail(entries))

\* the heap row of a string: its uint32_t size, then the bytes of the string
HeapEntry(string) == <<Len(string) + 1>> \o string

\* RowOperations::Scatter with a heap: the row stores the pointer to its heap
\* row, and its string column the pointer to the bytes and their length
StringRow(row, string, heap_ptr) ==
    [keys |-> row.keys, payload |-> row.payload, found |-> row.found,
     at_pointer_offset |-> row.at_pointer_offset,
     heap_ptr |-> heap_ptr, str_ptr |-> heap_ptr + 1, str_len |-> Len(string)]

\* Build on the table of worker w: strings[i] is the string of lane i (no
\* strings when the layout has fixed-width columns only); the payload of a row
\* is its worker and its insertion rank
BuildLocal(ht, w, keys, strings) ==
    LET current_sel == PrepareKeys(keys, TRUE)
        added_count == Len(current_sel)
        base == (w - 1) * MaxBuildRows + Len(ht.fed)
        rows == [i \in 1..added_count |-> BuildRow(keys[current_sel[i]], base + i)]
        hash_values == [i \in 1..added_count |-> Hash(keys[current_sel[i]])]
        heap == AppendToHeap([blocks |-> ht.string_heap, ptrs |-> <<>>,
                              next_id |-> ht.next_block_id],
                             IF strings = <<>> THEN <<>>
                             ELSE [i \in 1..added_count |->
                                      HeapEntry(strings[current_sel[i]])])
        stored == IF strings = <<>> THEN rows
                  ELSE [i \in 1..added_count |->
                           StringRow(rows[i], strings[current_sel[i]], heap.ptrs[i])]
    IN [ht EXCEPT !.has_null = (@ \/ added_count < Len(keys)),
                  !.block_collection = AppendRows(@, stored),
                  !.string_heap = heap.blocks,
                  !.next_block_id = heap.next_id,
                  !.histogram_ptr = UpdateHistogram(@, hash_values),
                  !.fed = @ \o [i \in 1..added_count |->
                                  [keys |-> rows[i].keys, payload |-> rows[i].payload,
                                   string |-> IF strings = <<>> THEN <<>>
                                              ELSE strings[current_sel[i]]]]]

\* ------------------------------------------------------------ swizzling
MinValue(a, b) == IF a <= b THEN a ELSE b

\* the cell at an address of the buffers of the heap blocks (0: no such cell)
LoadCell(heap_blocks, addr) ==
    LET held == {i \in 1..Len(heap_blocks) :
                    /\ heap_blocks[i].id = addr \div HeapStride
                    /\ addr % HeapStride < Len(heap_blocks[i].bytes)}
    IN IF held = {} THEN 0
       ELSE heap_blocks[CHOOSE i \in held : TRUE].bytes[(addr % HeapStride) + 1]

\* the size cells that start at an address
ReadBytes(heap_blocks, addr, size) ==
    [k \in 1..size |-> LoadCell(heap_blocks, addr + k - 1)]

\* RowOperations::SwizzleColumns: the pointer of the string column becomes its
\* offset from the pointer to the heap row
SwizzleColumns(rows) ==
    [i \in 1..Len(rows) |-> [rows[i] EXCEPT !.str_ptr = @ - rows[i].heap_ptr]]

\* RowOperations::SwizzleHeapPointer for the count rows from row `first`: the
\* pointer to the heap row becomes its offset from heap_base, plus the bias
SwizzleHeapPointer(rows, first, count, heap_base, offset_bias) ==
    [i \in 1..Len(rows) |->
        IF i >= first /\ i < first + count
        THEN [rows[i] EXCEPT !.heap_ptr = (@ - heap_base) + offset_bias]
        ELSE rows[i]]

\* RowOperations::UnswizzlePointers: the inverse, for a heap block pinned at
\* heap_base
UnswizzlePointers(rows, heap_base) ==
    [i \in 1..Len(rows) |->
        [rows[i] EXCEPT !.heap_ptr = heap_base + @,
                        !.str_ptr = heap_base + rows[i].heap_ptr + @]]

\* heap_blocks[idx]->count (0 where the list has no such block)
HeapBlockCount(heap_blocks, idx) ==
    IF idx \in 1..Len(heap_blocks) THEN heap_blocks[idx].count ELSE 0

\* if (heap_block_remaining == 0) heap_block_remaining = heap_blocks[++heap_block_idx]->count
NextHeapBlock(st) ==
    IF st.heap_block_remaining = 0
    THEN [st EXCEPT !.heap_block_idx = @ + 1,
                    !.heap_block_remaining = HeapBlockCount(st.heap_blocks, st.heap_block_idx + 1)]
    ELSE st

\* the current heap block holds every string of the data block: reference it
SwizzleOneHeapBlock(st, rows) ==
    LET heap_block == st.heap_blocks[st.heap_block_idx]
        heap_ptr == rows[1].heap_ptr
        heap_offset == heap_ptr - HeapBase(heap_block.id)
    IN [st EXCEPT !.swizzled_heap = Append(@, [heap_block EXCEPT !.count = 0]),
                  !.swizzled_data =
                      Append(@, SwizzleHeapPointer(rows, 1, Len(rows), heap_ptr, heap_offset)),
                  !.heap_block_remaining = @ - Len(rows)]

\* one pass of the while loop that swizzles against offset 0 instead of total_size
SpreadStepNoBias(sp) ==
    LET next == MinValue(sp.data_block_remaining, sp.st.heap_block_remaining)
        heap_start_ptr == sp.rows[sp.data_ptr].heap_ptr
        heap_end_ptr == sp.rows[sp.data_ptr + next - 1].heap_ptr
        size == (heap_end_ptr - heap_start_ptr) + LoadCell(sp.st.heap_blocks, heap_end_ptr)
    IN [sp EXCEPT !.ptrs_and_sizes = Append(@, <<heap_start_ptr, size>>),
                  !.rows = SwizzleHeapPointer(@, sp.data_ptr, next, heap_start_ptr, 0),
                  !.total_size = @ + size,
                  !.data_ptr = @ + next,
                  !.data_block_remaining = @ - next,
                  !.st.heap_block_remaining = @ - next]

\* one pass of the while loop: the next rows of the data block whose strings
\* lie in the current heap block
SpreadStep(sp) ==
    LET next == MinValue(sp.data_block_remaining, sp.st.heap_block_remaining)
        heap_start_ptr == sp.rows[sp.data_ptr].heap_ptr
        heap_end_ptr == sp.rows[sp.data_ptr + next - 1].heap_ptr
        size == (heap_end_ptr - heap_start_ptr) + LoadCell(sp.st.heap_blocks, heap_end_ptr)
    IN [sp EXCEPT !.ptrs_and_sizes = Append(@, <<heap_start_ptr, size>>),
                  !.rows = SwizzleHeapPointer(@, sp.data_ptr, next, heap_start_ptr,
                                              sp.total_size),
                  !.total_size = @ + size,
                  !.data_ptr = @ + next,
                  !.data_block_remaining = @ - next,
                  !.st.heap_block_remaining = @ - next]

SpreadNextHeapBlock(sp) == [sp EXCEPT !.st = NextHeapBlock(@)]

RECURSIVE SpreadLoop(_)
SpreadLoop(sp) ==
    IF sp.data_block_remaining = 0 THEN sp
    ELSE SpreadLoop(SpreadStep(SpreadNextHeapBlock(sp)))

\* memcpy of the collected pieces, one after the other
RECURSIVE CopyPieces(_, _)
CopyPieces(heap_blocks, ptrs_and_sizes) ==
    IF ptrs_and_sizes = <<>> THEN <<>>
    ELSE ReadBytes(heap_blocks, Head(ptrs_and_sizes)[1], Head(ptrs_and_sizes)[2])
         \o CopyPieces(heap_blocks, Tail(ptrs_and_sizes))

\* the new heap block that receives the pieces
SpreadDone(sp) ==
    [sp.st EXCEPT !.swizzled_heap =
                      Append(@, [id |-> sp.st.next_id,
                                 bytes |-> CopyPieces(sp.st.heap_blocks, sp.ptrs_and_sizes),
                                 count |-> 0]),
                  !.swizzled_data = Append(@, sp.rows),
                  !.next_id = @ + 1]

\* the strings of the data block are spread over several heap blocks: copy
\* them to one new heap block
SwizzleSpread(st, rows) ==
    SpreadDone(SpreadLoop([st |-> st, rows |-> rows, data_ptr |-> 1,
                           data_block_remaining |-> Len(rows),
                           ptrs_and_sizes |-> <<>>, total_size |-> 0]))

SwizzleBlock(st, rows) ==
    IF st.heap_block_remaining >= Len(rows)
    THEN SwizzleOneHeapBlock(st, rows)
    ELSE SwizzleSpread(st, rows)

\* the for loop over the data blocks
RECURSIVE SwizzleLoop(_, _)
SwizzleLoop(st, data_blocks) ==
    IF data_blocks = <<>> THEN st
    ELSE SwizzleLoop(SwizzleBlock(NextHeapBlock(st), SwizzleColumns(Head(data_blocks))),
                     Tail(data_blocks))

SwizzleHeap(ht, data_blocks) ==
    SwizzleLoop([heap_blocks |-> ht.string_heap, heap_block_idx |-> 1,
                 heap_block_remaining |-> HeapBlockCount(ht.string_heap, 1),
                 swizzled_data |-> <<>>, swizzled_heap |-> ht.swizzled_string_heap,
                 next_id |-> ht.next_block_id],
                data_blocks)

SwizzledWith(ht, st) ==
    [ht EXCEPT !.swizzled_block_collection = st.swizzled_data,
               !.block_collection = <<>>,
               !.swizzled_string_heap = st.swizzled_heap,
               !.string_heap = <<>>,
               !.next_block_id = st.next_id]

\* JoinHashTable::SwizzleCollectedBlocks
SwizzleCollectedBlocks(ht) ==
    IF all_constant
    THEN [ht EXCEPT !.swizzled_block_collection = @ \o ht.block_collection,
                    !.block_collection = <<>>]
    ELSE SwizzledWith(ht, SwizzleHeap(ht, ht.swizzled_block_collection \o ht.block_collection))

\* the for loop of UnswizzleBlocks: data block block_idx and its heap block
RECURSIVE UnswizzleLoop(_, _)
UnswizzleLoop(ht, block_idx) ==
    IF block_idx > Len(ht.swizzled_block_collection) THEN ht
    ELSE UnswizzleLoop(
            IF all_constant
            THEN [ht EXCEPT !.block_collection =
                               Append(@, ht.swizzled_block_collection[block_idx])]
            ELSE [ht EXCEPT !.block_collection =
                               Append(@, UnswizzlePointers(
                                            ht.swizzled_block_collection[block_idx],
                                            HeapBase(ht.swizzled_string_heap[block_idx].id))),
                            !.string_heap = Append(@, ht.swizzled_string_heap[block_idx])],
            block_idx + 1)

UnswizzledAndCleared(ht) ==
    [ht EXCEPT !.swizzled_block_collection = <<>>, !.swizzled_string_heap = <<>>]

\* JoinHashTable::UnswizzleBlocks
UnswizzleBlocks(ht) == UnswizzledAndCleared(UnswizzleLoop(ht, 1))

\* ------------------------------------------------------------ workers
\* the strings a worker feeds with a batch: none for a fixed-width layout
StringBatches(lanes) == IF all_constant THEN {<<>>} ELSE [1..lanes -> StringValues]

\* worker w feeds a batch to its table
LocalBuild(w) ==
    /\ local_hts[w].phase = "build"
    /\ \E keys \in Batches(ColumnCount, STANDARD_VECTOR_SIZE) :
         /\ Len(local_hts[w].fed) + Len(keys) <= build_limit
         /\ \E strings \in StringBatches(Len(keys)) :
              local_hts' = [local_hts EXCEPT ![w] = BuildLocal(@, w, keys, strings)]
    /\ UNCHANGED <<all_constant, global_ht, event, finalize, partitioned_probe, config,
                   table, outer_scan, probe_state>>

\* worker w swizzles the blocks it has collected; heap_blocks[0] of a heap
\* without blocks is read past the end of the list: the read returns some count
\* or ends the worker
LocalSwizzle(w) ==
    /\ local_hts[w].phase = "build"
    /\ \/ local_hts' = [local_hts EXCEPT ![w] =
                           [SwizzleCollectedBlocks(@) EXCEPT !.phase = "swizzled"]]
       \/ /\ ~all_constant /\ local_hts[w].string_heap = <<>>
          /\ local_hts' = [local_hts EXCEPT ![w].phase = "crashed"]
    /\ UNCHANGED <<all_constant, global_ht, event, finalize, partitioned_probe, config,
                   table, outer_scan, probe_state>>

\* the swizzled blocks of worker w are pinned again and unswizzled
LocalUnswizzle(w) ==
    /\ local_hts[w].phase = "swizzled"
    /\ local_hts' = [local_hts EXCEPT ![w] =
                        [UnswizzleBlocks(@) EXCEPT !.phase = "unswizzled"]]
    /\ UNCHANGED <<all_constant, global_ht, event, finalize, partitioned_probe, config,
                   table, outer_scan, probe_state>>

\* ------------------------------------------------------------ partitioning
\* the rows of a collection in block order
RowsOf(blocks) == Flatten(blocks)

\* RadixPartitioning::Partition: every row of the swizzled collection goes to
\* the collection of the partition of its hash, in the order of the input
RadixPartitioningPartition(blocks, bits) ==
    [p \in 1..NumPartitions(bits) |->
        AppendRows(<<>>, SelectSeq(RowsOf(blocks),
                                   LAMBDA r : RadixPartition(r.at_pointer_offset, bits) = p - 1))]

\* JoinHashTable::Partition up to the call of Merge: partition the swizzled
\* rows with the radix bits of the global table and clear the input
Partition(ht, bits) ==
    [ht EXCEPT !.partition_block_collections =
                   RadixPartitioningPartition(ht.swizzled_block_collection, bits),
               !.swizzled_block_collection = <<>>,
               !.swizzled_string_heap = <<>>]

\* JoinHashTable::MergeHistogram
MergeHistogram(hist, other_hist) == [p \in DOMAIN hist |-> hist[p] + other_hist[p]]

RECURSIVE MergeHistograms(_, _, _)
MergeHistograms(hist, hts, workers) ==
    IF workers = {} THEN hist
    ELSE LET w == CHOOSE x \in workers : TRUE
         IN MergeHistograms(MergeHistogram(hist, hts[w].histogram_ptr), hts, workers \ {w})

\* total_count of SchedulePartitionTasks: the sum of swizzled_string_heap->count,
\* which SwizzleCollectedBlocks sets only for a layout with a heap
RECURSIVE TotalCount(_, _)
TotalCount(hts, workers) ==
    IF workers = {} THEN 0
    ELSE LET w == CHOOSE x \in workers : TRUE
         IN (IF all_constant THEN 0 ELSE Len(hts[w].fed)) + TotalCount(hts, workers \ {w})

\* <<payload, hash>> of the rows that the workers fed to their tables
FedRows(hts) ==
    UNION {{<<hts[w].fed[i].payload, Hash(hts[w].fed[i].keys)>> : i \in 1..Len(hts[w].fed)} :
           w \in DOMAIN hts}

\* the partition event: its state, the position of each partition task (one
\* per local table once the event is scheduled), the holder of partition_lock
\* (0: free), and the rows that the local tables held when it was scheduled
NoEvent == [state |-> "none", tasks |-> <<>>, partition_lock |-> 0, fed |-> {}]

\* JoinHashTable::SchedulePartitionTasks: merge the histograms, reduce, and
\* insert the event.  total_string_size / total_count divides by 0 when no heap
\* row was counted: the division stops the query or yields some value
SchedulePartitionTasks ==
    /\ event.state = "none"
    /\ DOMAIN local_hts # {}
    /\ \A w \in DOMAIN local_hts : local_hts[w].phase = "swizzled"
    /\ \/ /\ TotalCount(local_hts, DOMAIN local_hts) = 0
          /\ event' = [event EXCEPT !.state = "crashed"]
          /\ UNCHANGED histogram_ptr
       \/ /\ \E avg_string_size \in AvgStringSizes :
                histogram_ptr' =
                    ReduceLoop(MergeHistograms(histogram_ptr, local_hts, DOMAIN local_hts),
                               current_radix_bits, avg_string_size + RowWidth).histogram_ptr
          /\ event' = [event EXCEPT !.state = "inserted"]
    /\ UNCHANGED <<local_hts, all_constant, global_ht, finalize, partitioned_probe, config,
                   block_collection, has_null, finalized, hash_map, bitmask, pinned_handles,
                   correlated_counts, current_radix_bits, fed_null_key, reduction,
                   outer_scan, probe_state>>

\* the tuple of what the partition tasks leave alone
beside_event ==
    <<all_constant, finalize, partitioned_probe, config, table, outer_scan, probe_state>>

\* PartitionEvent::Schedule: one PartitionTask per local table
Schedule ==
    /\ event.state = "inserted"
    /\ event' = [event EXCEPT !.state = "scheduled",
                              !.tasks = [w \in DOMAIN local_hts |->
                                            [pc |-> "scheduled", idx |-> 1]],
                              !.fed = FedRows(local_hts)]
    /\ UNCHANGED <<local_hts, global_ht, beside_event>>

TaskAt(w, pc) ==
    /\ event.state = "scheduled"
    /\ w \in DOMAIN event.tasks
    /\ event.tasks[w].pc = pc

\* PartitionTask::ExecuteTask, local_ht.Partition(global_ht) up to Merge
TaskPartition(w) ==
    /\ TaskAt(w, "scheduled")
    /\ local_hts' = [local_hts EXCEPT ![w] = Partition(@, current_radix_bits)]
    /\ event' = [event EXCEPT !.tasks[w].pc = "merge"]
    /\ UNCHANGED <<global_ht, beside_event>>

\* Merge, lines 79-86: the collections of the local table are empty, and
\* partition_block_collections.empty() is read without the lock
TaskMergeCheck(w) ==
    /\ TaskAt(w, "merge")
    /\ event' = [event EXCEPT !.tasks[w].pc =
                    IF global_ht.partition_block_collections = <<>> THEN "lock" ELSE "each"]
    /\ UNCHANGED <<local_hts, global_ht, beside_event>>

\* lock_guard<mutex> lock(partition_lock)
TaskMergeLock(w) ==
    /\ TaskAt(w, "lock")
    /\ event.partition_lock = 0
    /\ event' = [event EXCEPT !.tasks[w].pc = "push", !.partition_lock = w]
    /\ UNCHANGED <<local_hts, global_ht, beside_event>>

\* one pass of the push_back loop; after the last pass the partitions of the
\* local table are cleared and the lock is released
TaskMergePush(w) ==
    /\ TaskAt(w, "push")
    /\ LET idx == event.tasks[w].idx
           other == local_hts[w].partition_block_collections
       IN IF idx <= Len(other)
          THEN /\ global_ht' = [global_ht EXCEPT !.partition_block_collections =
                                                     Append(@, other[idx])]
               /\ event' = [event EXCEPT !.tasks[w].idx = idx + 1]
               /\ UNCHANGED local_hts
          ELSE /\ local_hts' = [local_hts EXCEPT ![w].partition_block_collections = <<>>]
               /\ event' = [event EXCEPT !.tasks[w].pc = "merged", !.partition_lock = 0]
               /\ UNCHANGED global_ht
    /\ UNCHANGED beside_event

\* one pass of the loop of the else branch: RowDataCollection::Merge moves the
\* blocks of partition idx.  partition_block_collections[idx] of a list that
\* is still shorter is read past its end: the task stops, or its rows are
\* moved to no collection
TaskMergeEach(w) ==
    /\ TaskAt(w, "each")
    /\ LET idx == event.tasks[w].idx
           other == local_hts[w].partition_block_collections
       IN IF idx <= Len(other)
          THEN \/ /\ idx <= Len(global_ht.partition_block_collections)
                  /\ global_ht' = [global_ht EXCEPT !.partition_block_collections[idx] =
                                                        @ \o other[idx]]
                  /\ local_hts' = [local_hts EXCEPT ![w].partition_block_collections[idx] = <<>>]
                  /\ event' = [event EXCEPT !.tasks[w].idx = idx + 1]
               \/ /\ idx > Len(global_ht.partition_block_collections)
                  /\ local_hts' = [local_hts EXCEPT ![w].partition_block_collections[idx] = <<>>]
                  /\ event' = [event EXCEPT !.tasks[w].idx = idx + 1]
                  /\ UNCHANGED global_ht
               \/ /\ idx > Len(global_ht.partition_block_collections)
                  /\ event' = [event EXCEPT !.tasks[w].pc = "crashed"]
                  /\ UNCHANGED <<local_hts, global_ht>>
          ELSE /\ event' = [event EXCEPT !.tasks[w].pc = "merged"]
               /\ UNCHANGED <<local_hts, global_ht>>
    /\ UNCHANGED beside_event

\* event->FinishTask()
TaskFinish(w) ==
    /\ TaskAt(w, "merged")
    /\ event' = [event EXCEPT !.tasks[w].pc = "finished"]
    /\ UNCHANGED <<local_hts, global_ht, beside_event>>

\* Event::FinishTask of the last task runs PartitionEvent::FinishEvent on
\* thread t: the local tables are cleared, then FinalizeExternal is called
FinishEvent(t) ==
    /\ event.state = "scheduled"
    /\ \A w \in DOMAIN event.tasks : event.tasks[w].pc = "finished"
    /\ finalize.pc[t] = "idle"
    /\ local_hts' = <<>>
    /\ event' = [event EXCEPT !.state = "finished"]
    /\ finalize' = [finalize EXCEPT !.pc[t] = "call", !.calls[t] = @ + 1]
    /\ UNCHANGED <<global_ht, all_constant, partitioned_probe, config, table, outer_scan,
                   probe_state>>

\* ------------------------------------------------------------ FinalizeExternal
\* FinalizeExternal calls a thread makes at most
MaxFinalizeCalls == 2

\* the extra collections of the global table, and its partition_cutoff
NoPartitions ==
    [swizzled_block_collection |-> <<>>, partition_block_collections |-> <<>>]

\* finalize_lock (0: free), the position of each thread in FinalizeExternal,
\* the calls it has made and the Finalize runs so far
NoFinalize ==
    [lock |-> 0, pc |-> [t \in AllThreads |-> "idle"],
     calls |-> [t \in AllThreads |-> 0], runs |-> 0]

\* a mutex that excludes nobody
LockFreeAlways(holder) == TRUE

\* whether a lock_guard can take the mutex
LockFree(holder) == holder = 0

\* the for loop of PinPartitions from partition idx on
RECURSIVE PinLoop(_, _)
PinLoop(g, idx) ==
    IF idx > Len(g.partition_block_collections) THEN g
    ELSE PinLoop([g EXCEPT !.swizzled_block_collection =
                               @ \o g.partition_block_collections[idx],
                           !.partition_block_collections[idx] = <<>>],
                 idx + 1)

\* JoinHashTable::PinPartitions
PinPartitions(g) == PinLoop(g, 1)

\* the addresses of the rows of a collection, block after block
BlockAddrs(blocks) ==
    Flatten([b \in 1..Len(blocks) |-> [i \in 1..Len(blocks[b]) |-> Addr(b, i)]])

\* JoinHashTable::Finalize over the blocks of block_collection: the hash map,
\* the rows with their chain pointers, and the bitmask
FinalizeBlocks(blocks) ==
    InsertHashes([rows |-> blocks,
                  map |-> [s \in 0..(NextPowerOfTwo(MaxValue(CountOf(blocks) * 2,
                                                             BlockSizeInPointers + 1)) - 1)
                             |-> 0],
                  mask |-> NextPowerOfTwo(MaxValue(CountOf(blocks) * 2,
                                                   BlockSizeInPointers + 1)) - 1],
                 BlockAddrs(blocks))

\* what FinalizeExternal leaves alone
beside_finalize == <<local_hts, all_constant, event, partitioned_probe, config,
                     histogram_ptr, has_null,
                     correlated_counts, current_radix_bits, fed_null_key, reduction,
                     outer_scan, probe_state>>

\* a thread calls FinalizeExternal once more
FinalizeExternalCall(t) ==
    /\ event.state = "finished"
    /\ finalize.pc[t] = "idle"
    /\ finalize.calls[t] < MaxFinalizeCalls
    /\ finalize' = [finalize EXCEPT !.pc[t] = "call", !.calls[t] = @ + 1]
    /\ UNCHANGED <<global_ht, block_collection, finalized, hash_map, bitmask,
                   pinned_handles, beside_finalize>>

\* lock_guard<mutex> flock(finalize_lock)
FinalizeExternalLock(t) ==
    /\ finalize.pc[t] = "call"
    /\ LockFree(finalize.lock)
    /\ finalize' = [finalize EXCEPT !.pc[t] = "locked", !.lock = t]
    /\ UNCHANGED <<global_ht, block_collection, finalized, hash_map, bitmask,
                   pinned_handles, beside_finalize>>

\* if (finalized) return; else PinPartitions()
FinalizeExternalPin(t) ==
    /\ finalize.pc[t] = "locked"
    /\ IF finalized
       THEN /\ finalize' = [finalize EXCEPT !.pc[t] = "idle", !.lock = 0]
            /\ UNCHANGED global_ht
       ELSE /\ finalize' = [finalize EXCEPT !.pc[t] = "pinned"]
            /\ global_ht' = PinPartitions(global_ht)
    /\ UNCHANGED <<block_collection, finalized, hash_map, bitmask, pinned_handles,
                   beside_finalize>>

\* UnswizzleBlocks() on the global table
FinalizeExternalUnswizzle(t) ==
    /\ finalize.pc[t] = "pinned"
    /\ LET Unswizzled(ht) ==
              /\ block_collection' = ht.block_collection
              /\ global_ht' = [global_ht EXCEPT !.swizzled_block_collection =
                                                    ht.swizzled_block_collection]
       IN Unswizzled(UnswizzleBlocks(
              [block_collection |-> block_collection, string_heap |-> <<>>,
               swizzled_block_collection |-> global_ht.swizzled_block_collection,
               swizzled_string_heap |-> <<>>]))
    /\ finalize' = [finalize EXCEPT !.pc[t] = "unswizzled"]
    /\ UNCHANGED <<finalized, hash_map, bitmask, pinned_handles, beside_finalize>>

\* Finalize() on the global table, and the end of the lock_guard
FinalizeExternalFinalize(t) ==
    /\ finalize.pc[t] = "unswizzled"
    /\ LET Finalized(st) ==
              /\ bitmask' = st.mask
              /\ hash_map' = st.map
              /\ block_collection' = st.rows
       IN Finalized(FinalizeBlocks(block_collection))
    /\ pinned_handles' = pinned_handles \o [b \in 1..Len(block_collection) |-> b]
    /\ finalized' = TRUE
    /\ finalize' = [finalize EXCEPT !.pc[t] = "idle", !.lock = 0, !.runs = @ + 1]
    /\ UNCHANGED <<global_ht, beside_finalize>>

\* ------------------------------------------------------------ partitioned probe
\* RadixPartitioning::Select: the lanes of sel_in whose partition lies below
\* the cutoff (true_sel) and the other lanes of sel_in (false_sel), each in
\* the order of sel_in
Select(keys, sel_in, bits, cutoff) ==
    [true_sel |-> SelectSeq(sel_in, LAMBDA i : RadixPartition(Hash(keys[i]), bits) < cutoff),
     false_sel |-> SelectSeq(sel_in, LAMBDA i : RadixPartition(Hash(keys[i]), bits) >= cutoff)]

\* auto false_count = keys.size() - true_count
FalseCount(keys, count, true_count) == Len(keys) - true_count

\* the rows of sink_keys.Slice(false_sel, false_count): the lanes of false_sel,
\* then one row for each entry of false_sel that Select has not written.
\* false_sel.Initialize() allocates the buffer without filling it, so such an
\* entry selects any position of the key vector, of any value
SinkKeys(keys, false_sel, stale) == [i \in 1..Len(false_sel) |-> keys[false_sel[i]]] \o stale

\* the keys that Build appends to a table for a chunk
AppendedKeys(keys) ==
    [i \in 1..Len(PrepareKeys(keys, TRUE)) |-> keys[PrepareKeys(keys, TRUE)[i]]]

\* the table of the probe side: the local table that ProbeAndBuild sinks into
\* and its partitions, partition_cutoff (see NoPartitionedProbe), the partitions
\* that PreparePartitionedProbe has released (nullptr), to_scan of the scan
\* state, and about the calls of PreparePartitionedProbe: the cutoff before the
\* latest call, how often each partition was counted in to_scan, and whether a
\* released partition was read
EmptyProbeTable ==
    [table |-> EmptyTable, partition_cutoff |-> 0, released |-> {}, to_scan |-> 0,
     previous_cutoff |-> 0,
     counted |-> [p \in 0..(NumPartitions(INITIAL_RADIX_BITS) - 1) |-> 0],
     null_access |-> FALSE]

\* JoinHashTable::ProbeAndBuild by thread t; the cursor records the lanes that
\* PrepareKeys kept, the two selections and the keys that the sink table
\* appended
ProbeAndBuild(t, keys) ==
    /\ finalized
    /\ ~ss[t].active
    /\ LET Prepared(s) ==
              IF s.count = 0
              THEN /\ ss' = [ss EXCEPT ![t] =
                                s @@ [current_sel |-> <<>>, true_sel |-> <<>>,
                                      false_sel |-> <<>>, sunk |-> <<>>]]
                   /\ hash_map_reads' = [hash_map_reads EXCEPT ![t] = {}]
                   /\ UNCHANGED probe_ht
              ELSE LET Selected(sel) ==
                          \E stale \in [1..(FalseCount(keys, s.count, Len(sel.true_sel))
                                              - Len(sel.false_sel))
                                          -> KeyTuples(ColumnCount)] :
                             LET Sunk(sink_keys) ==
                                    /\ probe_ht' = [probe_ht EXCEPT !.table =
                                                       BuildLocal(@, t, sink_keys, <<>>)]
                                    /\ ss' = [ss EXCEPT ![t] =
                                                 InitializeSelectionVector(
                                                     [s EXCEPT !.count = Len(sel.true_sel)],
                                                     sel.true_sel)
                                                 @@ [current_sel |-> s.sel_vector,
                                                     true_sel |-> sel.true_sel,
                                                     false_sel |-> sel.false_sel,
                                                     sunk |-> AppendedKeys(sink_keys)]]
                             IN Sunk(SinkKeys(keys, sel.false_sel, stale))
                   IN /\ Selected(Select(keys, s.sel_vector, current_radix_bits,
                                         partition_cutoff))
                      /\ hash_map_reads' =
                            [hash_map_reads EXCEPT ![t] =
                                {ApplyBitmask(Hash(keys[i])) :
                                    i \in Range(Select(keys, s.sel_vector, current_radix_bits,
                                                       partition_cutoff).true_sel)}]
       IN Prepared(InitializeScanStructure(keys))
    /\ result' = [result EXCEPT ![t] = <<>>]
    /\ output' = [output EXCEPT ![t] = <<>>]
    /\ UNCHANGED <<local_hts, all_constant, global_ht, event, finalize, partition_cutoff,
                   config, table, outer_scan, matched_by_probe>>

\* the partitions whose count the second loop would read if it started at 0
ScannedPartitionsFromStart(pht, build_cutoff) == 0..(build_cutoff - 1)

\* the partitions whose count the second loop of PreparePartitionedProbe reads
ScannedPartitions(pht, build_cutoff) == pht.partition_cutoff..(build_cutoff - 1)

\* partition_block_collections[p]->count
PartitionCount(pht, p) ==
    IF p \in pht.released THEN 0 ELSE CountOf(pht.table.partition_block_collections[p + 1])

RECURSIVE SumCounts(_, _)
SumCounts(pht, ps) ==
    IF ps = {} THEN 0
    ELSE LET p == CHOOSE x \in ps : TRUE
         IN PartitionCount(pht, p) + SumCounts(pht, ps \ {p})

\* JoinHashTable::PreparePartitionedProbe on the table of the probe side
PreparePartitionedProbe(pht, build_cutoff) ==
    LET Released(after) ==
           [after EXCEPT !.to_scan = SumCounts(after, ScannedPartitions(pht, build_cutoff)),
                         !.counted = [p \in DOMAIN @ |->
                                         @[p] + (IF p \in ScannedPartitions(pht, build_cutoff)
                                                 THEN 1 ELSE 0)],
                         !.null_access =
                             @ \/ (ScannedPartitions(pht, build_cutoff) \cap after.released # {}),
                         !.previous_cutoff = pht.partition_cutoff,
                         !.partition_cutoff = build_cutoff]
    IN Released([pht EXCEPT !.released = @ \cup 0..(pht.partition_cutoff - 1)])

\* ------------------------------------------------------------ rounds
\* The operator that drives the rounds is not part of join_hashtable.cpp; it
\* follows the description of the external build: the probe input is probed
\* with ProbeAndBuild in the first round; between two rounds the sunk rows are
\* swizzled and partitioned, the cutoff of the build table moves up, and
\* PreparePartitionedProbe prepares the scan of the partitions of the round,
\* whose rows are probed again.
\* batches of the build side
BuildInputs == {<<<<1>>, <<2>>>>, <<<<2>>, <<2>>>>}

\* the rounds: the phase of the current round, its number, the probe input,
\* the keys still to probe in this round, and the rows emitted so far as
\* <<probe key, build column>>
FirstRound(build_rows) ==
    [phase |-> "probe", no |-> 1, build_rows |-> build_rows, input |-> <<>>,
     pending |-> <<>>, emitted |-> <<>>]

\* the rows of the result chunks of a scan over the batch keys
EmittedOf(chunks, keys) ==
    Flatten([c \in 1..Len(chunks) |->
                [i \in 1..Len(chunks[c]) |-> <<keys[chunks[c][i].lane], chunks[c][i].build>>]])

\* the keys of the rows of the partitions ps of the probe side, partition after
\* partition
PartitionKeys(pht, ps) ==
    Flatten([k \in 1..Len(pht.table.partition_block_collections) |->
                IF (k - 1) \in ps
                THEN [i \in 1..CountOf(pht.table.partition_block_collections[k]) |->
                         RowsOf(pht.table.partition_block_collections[k])[i].keys]
                ELSE <<>>])

beside_rounds ==
    <<local_hts, all_constant, global_ht, event, finalize, config, table, outer_scan>>

\* the probe side probes its input batch
ProbeInput(t) ==
    /\ rounds.phase = "probe" /\ rounds.no = 1 /\ rounds.input = <<>>
    /\ \E keys \in Batches(ColumnCount, probe_lanes) :
          /\ ProbeAndBuild(t, keys)
          /\ rounds' = [rounds EXCEPT !.input = keys]

\* the probe side probes the next rows of the partitions of the round
ProbeAgain(t) ==
    /\ rounds.phase = "probe" /\ rounds.pending # <<>>
    /\ ss[t].keys = <<>>
    /\ ProbeAndBuild(t, SubSeq(rounds.pending, 1,
                               MinValue(STANDARD_VECTOR_SIZE, Len(rounds.pending))))
    /\ rounds' = [rounds EXCEPT !.pending =
                     SubSeq(@, MinValue(STANDARD_VECTOR_SIZE, Len(@)) + 1, Len(@))]

\* the scan of a batch is exhausted: its chunks are passed on
EndBatch(t) ==
    /\ rounds.phase = "probe"
    /\ ~ss[t].active /\ ss[t].keys # <<>>
    /\ rounds' = [rounds EXCEPT !.emitted = @ \o EmittedOf(output[t], ss[t].keys),
                                !.phase = IF rounds.pending = <<>> THEN "end" ELSE "probe"]
    /\ ss' = [ss EXCEPT ![t] = EmptyScan]
    /\ output' = [output EXCEPT ![t] = <<>>]
    /\ result' = [result EXCEPT ![t] = <<>>]
    /\ hash_map_reads' = [hash_map_reads EXCEPT ![t] = {}]
    /\ UNCHANGED <<partition_cutoff, probe_ht, matched_by_probe, beside_rounds>>

\* the end of a round: the last round ends the probe; else the rows sunk in
\* the first round are swizzled and partitioned, and the next round makes
\* further partitions of the build table the current ones
EndRound ==
    /\ rounds.phase = "end"
    /\ IF partition_cutoff >= NumPartitions(current_radix_bits)
       THEN /\ rounds' = [rounds EXCEPT !.phase = "done"]
            /\ UNCHANGED <<partition_cutoff, probe_ht>>
       ELSE /\ rounds' = [rounds EXCEPT !.phase = "prepare", !.no = @ + 1]
            /\ \E cutoff \in (partition_cutoff + 1)..NumPartitions(current_radix_bits) :
                  partition_cutoff' = cutoff
            /\ probe_ht' = IF rounds.no = 1
                           THEN [probe_ht EXCEPT !.table =
                                    Partition(SwizzleCollectedBlocks(@), current_radix_bits)]
                           ELSE probe_ht
    /\ UNCHANGED <<probe_state, beside_rounds>>

\* the next round begins with PreparePartitionedProbe
PrepareRound ==
    /\ rounds.phase = "prepare"
    /\ probe_ht' = PreparePartitionedProbe(probe_ht, partition_cutoff)
    /\ LET Pending(keys) ==
              rounds' = [rounds EXCEPT !.pending = keys,
                                       !.phase = IF keys = <<>> THEN "end" ELSE "probe"]
       IN Pending(PartitionKeys(probe_ht, ScannedPartitions(probe_ht, partition_cutoff)))
    /\ UNCHANGED <<partition_cutoff, probe_state, beside_rounds>>

\* ------------------------------------------------------------ scan of the stored rows
\* GetScanIndices calls on one scan state that are followed at most
MaxScanCalls == MaxBuildRows + 1

\* the for loop of GetScanIndices over the blocks from st.block_position on:
\* next does not take st.position into account, and the break leaves the loop
\* before block_position is incremented and position is reset
RECURSIVE GetScanIndicesLoop(_, _, _)
GetScanIndicesLoop(blocks, st, count) ==
    IF st.block_position < Len(blocks)
    THEN LET next == MinValue(Len(blocks[st.block_position + 1]),
                              STANDARD_VECTOR_SIZE - count)
         IN IF count + next = STANDARD_VECTOR_SIZE
            THEN [state |-> [st EXCEPT !.position = @ + next], count |-> count + next]
            ELSE GetScanIndicesLoop(blocks,
                                    [block_position |-> st.block_position + 1,
                                     position |-> 0],
                                    count + next)
    ELSE [state |-> st, count |-> count]

\* JoinHashTable::GetScanIndices: position and block_position are those of the
\* state at the call
GetScanIndices(blocks, st) ==
    [state |-> GetScanIndicesLoop(blocks, st, 0).state,
     position |-> st.position, block_position |-> st.block_position,
     count |-> GetScanIndicesLoop(blocks, st, 0).count]

\* the while loop of ConstructProbeChunk: the pieces it takes, each the rows
\* position .. position + next - 1 of block block_position (a piece of a block
\* past the end of the list ends the loop)
RECURSIVE ProbeChunkPieces(_, _, _, _)
ProbeChunkPieces(blocks, position, block_position, left) ==
    IF left = 0 THEN <<>>
    ELSE IF block_position >= Len(blocks)
    THEN <<[block_position |-> block_position, position |-> position, next |-> left]>>
    ELSE LET next == MinValue(Len(blocks[block_position + 1]), left)
             at_end == position + next = Len(blocks[block_position + 1])
         IN <<[block_position |-> block_position, position |-> position, next |-> next]>>
            \o ProbeChunkPieces(blocks,
                                IF at_end THEN 0 ELSE position + next,
                                IF at_end THEN block_position + 1 ELSE block_position,
                                left - next)

\* key_locations of a chunk: <<block_position, position>> of its rows
PieceAddresses(piece) ==
    [i \in 1..piece.next |-> <<piece.block_position, piece.position + i - 1>>]

ChunkAddresses(pieces) == Flatten([k \in 1..Len(pieces) |-> PieceAddresses(pieces[k])])

\* whether <<block_position, position>> is a row of the blocks
InBlock(blocks, addr) ==
    /\ addr[1] < Len(blocks)
    /\ addr[2] < Len(blocks[addr[1] + 1])

\* RowOperations::UnswizzlePointers on the rows of a piece that lie in the block
UnswizzlePiece(ht, piece, heap_base) ==
    [ht EXCEPT !.block_collection[piece.block_position + 1] =
        [i \in 1..Len(@) |->
            IF i - 1 >= piece.position /\ i - 1 < piece.position + piece.next
            THEN UnswizzlePointers(<<@[i]>>, heap_base)[1]
            ELSE @[i]]]

\* the pieces of a chunk unswizzled one after the other, each against the
\* heap block at the index of its data block
RECURSIVE UnswizzlePieces(_, _)
UnswizzlePieces(ht, pieces) ==
    IF pieces = <<>> THEN ht
    ELSE UnswizzlePieces(
            IF Head(pieces).block_position < Len(ht.block_collection)
            THEN UnswizzlePiece(ht, Head(pieces),
                                HeapBase(ht.string_heap[Head(pieces).block_position + 1].id))
            ELSE ht,
            Tail(pieces))

\* JoinHashTable::ConstructProbeChunk on the table ht: key_locations, and the
\* table with the rows of the chunk unswizzled if the layout has a heap
ConstructProbeChunk(ht, position, block_position, count) ==
    [key_locations |->
        ChunkAddresses(ProbeChunkPieces(ht.block_collection, position, block_position, count)),
     ht |-> IF all_constant THEN ht
            ELSE UnswizzlePieces(ht, ProbeChunkPieces(ht.block_collection, position,
                                                      block_position, count))]

\* the chunks that the scan has produced so far
ScannedChunks == IF rounds.phase = "none" THEN <<>> ELSE rounds.chunks

\* the consumer of the stored rows of worker w's table, whose blocks are
\* pinned with their heap blocks: one GetScanIndices call on the scan state
\* and, if it returns rows, ConstructProbeChunk with what it returned.  Rows
\* past the end of a block are memory that is not a row of the table: the
\* call reads (and unswizzles) it, or the access ends the scan
ScanProbeChunk(w) ==
    /\ local_hts[w].phase \in {"unswizzled", "scan"}
    /\ Len(ScannedChunks) < MaxScanCalls
    /\ LET Scanned(r, chunk) ==
              /\ state' = r.state
              /\ IF r.count = 0
                 THEN /\ local_hts' = [local_hts EXCEPT ![w].phase = "scanned"]
                      /\ rounds' = [phase |-> "scan",
                                    chunks |-> Append(ScannedChunks,
                                                      [position |-> r.position,
                                                       block_position |-> r.block_position,
                                                       count |-> 0, key_locations |-> <<>>])]
                 ELSE \/ /\ local_hts' = [local_hts EXCEPT ![w] =
                                             [chunk.ht EXCEPT !.phase = "scan"]]
                         /\ rounds' = [phase |-> "scan",
                                       chunks |-> Append(ScannedChunks,
                                                         [position |-> r.position,
                                                          block_position |-> r.block_position,
                                                          count |-> r.count,
                                                          key_locations |-> chunk.key_locations])]
                      \/ /\ \E i \in 1..Len(chunk.key_locations) :
                               ~InBlock(local_hts[w].block_collection, chunk.key_locations[i])
                         /\ local_hts' = [local_hts EXCEPT ![w].phase = "crashed"]
                         /\ UNCHANGED rounds
       IN Scanned(GetScanIndices(local_hts[w].block_collection, state),
                  ConstructProbeChunk(local_hts[w],
                                      state.position, state.block_position,
                                      GetScanIndices(local_hts[w].block_collection, state).count))
    /\ UNCHANGED <<all_constant, global_ht, event, finalize, partition_cutoff, probe_ht,
                   config, table, probe_ended, full_outer_output, probe_state>>
\* ------------------------------------------------------------ specifications
EqualCondition == <<"COMPARE_EQUAL">>
NotDistinctCondition == <<"COMPARE_NOT_DISTINCT_FROM">>
EqualAndGreaterConditions == <<"COMPARE_EQUAL", "COMPARE_GREATERTHAN">>
OneColumnConditionSets == {EqualCondition, NotDistinctCondition}

\* the build side feeds a batch
BuildBatch ==
    /\ ~finalized
    /\ \E keys \in Batches(ColumnCount, STANDARD_VECTOR_SIZE) : Build(keys)

\* a thread of the probe side probes a batch
ProbeBatch ==
    \E t \in threads :
        /\ finalized /\ ~ss[t].active
        /\ \E keys \in Batches(ColumnCount, probe_lanes) : Probe(t, keys)

Next ==
    \/ BuildBatch
    \/ Finalize
    \/ ProbeBatch
    \/ \E t \in threads : NextCall(t)

\* one probing thread and one batch; the two-column conditions get a smaller
\* table, and probe batches of `lanes` lanes
InitSequential(jts, lanes) ==
    \/ InitWith(jts, OneColumnConditionSets, 0, {1}, FALSE, MaxBuildRows,
                STANDARD_VECTOR_SIZE)
    \/ InitWith(jts, {EqualAndGreaterConditions}, 0, {1}, FALSE, MaxBuildRows - 1,
                lanes)

Init == InitSequential({"INNER"}, STANDARD_VECTOR_SIZE - 1)
Spec == Init /\ [][Next]_vars

InitLeft ==
    \/ InitSequential({"LEFT"}, STANDARD_VECTOR_SIZE - 1)
    \/ InitWith({"OUTER"}, OneColumnConditionSets, 0, {1}, FALSE, MaxBuildRows,
                STANDARD_VECTOR_SIZE)
SpecLeft == InitLeft /\ [][Next]_vars

InitSemi == InitSequential({"SEMI"}, STANDARD_VECTOR_SIZE - 1)
SpecSemi == InitSemi /\ [][Next]_vars

InitAnti == InitSequential({"ANTI"}, STANDARD_VECTOR_SIZE - 1)
SpecAnti == InitAnti /\ [][Next]_vars

InitMark == InitSequential({"MARK"}, STANDARD_VECTOR_SIZE)
SpecMark == InitMark /\ [][Next]_vars

InitSingle == InitSequential({"SINGLE"}, STANDARD_VECTOR_SIZE - 1)
SpecSingle == InitSingle /\ [][Next]_vars

\* a MARK join with one correlated column before the key column
CorrelatedConditions == <<"COMPARE_NOT_DISTINCT_FROM", "COMPARE_EQUAL">>
InitMarkCorr ==
    InitWith({"MARK"}, {CorrelatedConditions}, 1, {1}, FALSE, MaxBuildRows - 1,
             STANDARD_VECTOR_SIZE - 1)
SpecMarkCorr == InitMarkCorr /\ [][Next]_vars

\* right and full outer joins probed by two threads, batch after batch
InitRight ==
    \/ InitWith({"RIGHT"}, OneColumnConditionSets, 0, {1, 2}, TRUE, MaxBuildRows - 1,
                STANDARD_VECTOR_SIZE - 1)
    \/ InitWith({"OUTER"}, {EqualCondition}, 0, {1, 2}, TRUE, MaxBuildRows - 1,
                STANDARD_VECTOR_SIZE - 1)
SpecRight == InitRight /\ [][Next]_vars

\* right and full outer joins probed by two threads, batches of one lane, and
\* then scanned for the build rows without a match
InitFullOuter ==
    InitWith({"RIGHT", "OUTER"}, {EqualCondition}, 0, {1, 2}, TRUE, MaxBuildRows, 1)
NextFullOuter ==
    \/ Next
    \/ EndProbe
    \/ \E t \in threads : ScanFullOuter(t)
SpecFullOuter == InitFullOuter /\ [][NextFullOuter]_vars

\* the build side feeds its batches and then the histogram is reduced
InitHistogram ==
    InitWith({"INNER"}, OneColumnConditionSets, 0, {1}, FALSE, MaxBuildRows,
             STANDARD_VECTOR_SIZE)
NextHistogram ==
    \/ reduction.call = "none" /\ BuildBatch
    \/ \E avg_string_size \in AvgStringSizes : ReduceHistogram(avg_string_size)
    \/ \E to \in 0..(current_radix_bits - 1) : RadixReduceCall(to)
SpecHistogram == InitHistogram /\ [][NextHistogram]_vars

\* every join kind, one probing thread and one batch
JoinKinds == {"INNER", "LEFT", "OUTER", "RIGHT", "SEMI", "ANTI", "MARK", "SINGLE"}
InitKinds ==
    InitWith(JoinKinds, OneColumnConditionSets, 0, {1}, FALSE, MaxBuildRows - 1,
             STANDARD_VECTOR_SIZE)
SpecKinds == InitKinds /\ [][Next]_vars

\* one worker builds a table with a string column, swizzles it and unswizzles it
InitSwizzle ==
    /\ InitTable({"INNER"}, {EqualCondition}, 0, {1}, FALSE, MaxBuildRows,
                 STANDARD_VECTOR_SIZE)
    /\ local_hts = [w \in {1} |-> EmptyTable]
    /\ all_constant = FALSE
    /\ global_ht = NoPartitions
    /\ event = NoEvent
    /\ finalize = NoFinalize
    /\ NoPartitionedProbe
NextSwizzle ==
    \/ LocalBuild(1)
    \/ LocalSwizzle(1)
    \/ LocalUnswizzle(1)
SpecSwizzle == InitSwizzle /\ [][NextSwizzle]_vars

\* two workers build their tables and swizzle them; the partition event moves
\* the rows to the partitions of the global table, and the threads finalize it
InitPartition ==
    /\ InitTable({"INNER"}, {EqualCondition}, 0, {1, 2}, FALSE, 2, 1)
    /\ local_hts = [w \in {1, 2} |-> EmptyTable]
    /\ all_constant = TRUE
    /\ global_ht = NoPartitions
    /\ event = NoEvent
    /\ finalize = NoFinalize
    /\ NoPartitionedProbe
NextPartition ==
    \/ \E w \in DOMAIN local_hts : LocalBuild(w)
    \/ \E w \in DOMAIN local_hts : LocalSwizzle(w)
    \/ SchedulePartitionTasks
    \/ Schedule
    \/ \E w \in DOMAIN local_hts : TaskPartition(w)
    \/ \E w \in DOMAIN local_hts : TaskMergeCheck(w)
    \/ \E w \in DOMAIN local_hts : TaskMergeLock(w)
    \/ \E w \in DOMAIN local_hts : TaskMergePush(w)
    \/ \E w \in DOMAIN local_hts : TaskMergeEach(w)
    \/ \E w \in DOMAIN local_hts : TaskFinish(w)
    \/ \E t \in threads : FinishEvent(t)
    \/ \E t \in threads : FinalizeExternalCall(t)
    \/ \E t \in threads : FinalizeExternalLock(t)
    \/ \E t \in threads : FinalizeExternalPin(t)
    \/ \E t \in threads : FinalizeExternalUnswizzle(t)
    \/ \E t \in threads : FinalizeExternalFinalize(t)
SpecPartition == InitPartition /\ [][NextPartition]_vars

\* a worker has built and swizzled its table; the partition event moves its
\* rows to the partitions of the global table, FinalizeExternal builds the
\* chained table, and the probe side probes it in rounds
ExternalKinds == {"INNER", "LEFT", "ANTI", "MARK", "SINGLE"}
InitExternalProbe ==
    /\ InitTable(ExternalKinds, {EqualCondition}, 0, {1}, FALSE, MaxBuildRows, 2)
    /\ all_constant = TRUE
    /\ \E keys \in BuildInputs :
          /\ local_hts = [w \in {1} |->
                             [SwizzleCollectedBlocks(BuildLocal(EmptyTable, 1, keys, <<>>))
                              EXCEPT !.phase = "swizzled"]]
          /\ rounds = FirstRound(keys)
    /\ global_ht = NoPartitions
    /\ event = NoEvent
    /\ finalize = NoFinalize
    /\ partition_cutoff \in 1..NumPartitions(INITIAL_RADIX_BITS)
    /\ probe_ht = EmptyProbeTable
NextExternalProbe ==
    \/ SchedulePartitionTasks
    \/ Schedule
    \/ \E w \in DOMAIN local_hts : TaskPartition(w)
    \/ \E w \in DOMAIN local_hts : TaskMergeCheck(w)
    \/ \E w \in DOMAIN local_hts : TaskMergeLock(w)
    \/ \E w \in DOMAIN local_hts : TaskMergePush(w)
    \/ \E w \in DOMAIN local_hts : TaskFinish(w)
    \/ \E t \in threads : FinishEvent(t)
    \/ \E t \in threads : FinalizeExternalCall(t)
    \/ \E t \in threads : FinalizeExternalLock(t)
    \/ \E t \in threads : FinalizeExternalPin(t)
    \/ \E t \in threads : FinalizeExternalUnswizzle(t)
    \/ \E t \in threads : FinalizeExternalFinalize(t)
    \/ \E t \in threads : ProbeInput(t)
    \/ \E t \in threads : NextCall(t)
    \/ \E t \in threads : EndBatch(t)
    \/ EndRound
    \/ PrepareRound
    \/ \E t \in threads : ProbeAgain(t)
SpecExternalProbe == InitExternalProbe /\ [][NextExternalProbe]_vars

\* the callers keep no order: Build, Finalize, Probe and ProbeAndBuild are
\* called on a table at any time
InitOrder ==
    /\ InitTable({"INNER"}, {EqualCondition}, 0, {1}, FALSE, MaxBuildRows,
                 STANDARD_VECTOR_SIZE)
    /\ local_hts = <<>>
    /\ all_constant = TRUE
    /\ global_ht = NoPartitions
    /\ event = NoEvent
    /\ finalize = NoFinalize
    /\ partition_cutoff \in 0..NumPartitions(INITIAL_RADIX_BITS)
    /\ probe_ht = EmptyProbeTable
    /\ rounds = [phase |-> "none"]
NextOrder ==
    \/ \E keys \in Batches(ColumnCount, STANDARD_VECTOR_SIZE) : Build(keys)
    \/ Finalize
    \/ \E t \in threads : \E keys \in Batches(ColumnCount, probe_lanes) : Probe(t, keys)
    \/ \E t \in threads : \E keys \in Batches(ColumnCount, probe_lanes) :
          /\ ss[t].keys = <<>>
          /\ ProbeAndBuild(t, keys)
          /\ UNCHANGED rounds
    \/ \E t \in threads : NextCall(t)
SpecOrder == InitOrder /\ [][NextOrder]_vars
\* one input batch is fed by Build calls to a table of any join kind, with one
\* or two key columns; rounds holds the batch
InitBuildInput ==
    /\ InitTable(JoinKinds, OneColumnConditionSets \cup {EqualAndGreaterConditions},
                 0, {1}, FALSE, 2 * STANDARD_VECTOR_SIZE, STANDARD_VECTOR_SIZE)
    /\ local_hts = <<>>
    /\ all_constant = TRUE
    /\ global_ht = NoPartitions
    /\ event = NoEvent
    /\ finalize = NoFinalize
    /\ partition_cutoff = 0
    /\ probe_ht = <<>>
    /\ \E keys \in Batches(ColumnCount, STANDARD_VECTOR_SIZE) :
          rounds = [phase |-> "build", input |-> keys]
BuildInput == Build(rounds.input)
NextBuildInput == BuildInput
SpecBuildInput == InitBuildInput /\ [][NextBuildInput]_vars
\* the build side feeds its batches and then the loop of ReduceHistogram runs
\* pass by pass, with a fit check that returns either result
NextReduceLoop ==
    \/ reduction.call = "none" /\ BuildBatch
    \/ \E avg_string_size \in AvgStringSizes : ReduceEnter(avg_string_size)
    \/ ReducePass
SpecReduceLoop == InitHistogram /\ [][NextReduceLoop]_vars
\* one worker builds a table with or without a string column, swizzles it and
\* unswizzles it, and the stored rows are scanned chunk by chunk
InitProbeChunk ==
    /\ InitTable({"INNER"}, {EqualCondition}, 0, {1}, FALSE, MaxBuildRows,
                 STANDARD_VECTOR_SIZE)
    /\ local_hts = [w \in {1} |-> EmptyTable]
    /\ all_constant \in BOOLEAN
    /\ global_ht = NoPartitions
    /\ event = NoEvent
    /\ finalize = NoFinalize
    /\ NoPartitionedProbe
NextProbeChunk ==
    \/ LocalBuild(1)
    \/ LocalSwizzle(1)
    \/ LocalUnswizzle(1)
    \/ ScanProbeChunk(1)
SpecProbeChunk == InitProbeChunk /\ [][NextProbeChunk]_vars
\* ------------------------------------------------------------ properties
\* the scan of thread t has a batch and its count has reached 0
ChainsExhausted(t) == ss[t].keys # <<>> /\ ss[t].count = 0

Lanes(t) == 1..Len(ss[t].keys)

\* the rows emitted so far by the Next calls of the current scan of thread t
Emitted(t) == Flatten(output[t])

NoDuplicates(seq) == \A i, j \in 1..Len(seq) : i # j => seq[i] # seq[j]

\* the build rows that the key of lane p of thread t matches
MatchesOfLane(t, p) == {a \in AllAddrs : Matches(ss[t].keys[p], RowAt(a).keys)}

\* <<lane, payload>> of every pair of a probe lane and a build row that match
MatchPairs(t) ==
    UNION {{<<p, RowAt(a).payload>> : a \in MatchesOfLane(t, p)} : p \in Lanes(t)}

\* <<lane, build>> of the emitted rows that carry a build row
EmittedPairs(t) ==
    {<<Emitted(t)[i].lane, Emitted(t)[i].build>> :
        i \in {k \in 1..Len(Emitted(t)) : Emitted(t)[k].build > 0}}

\* a lane with a null in a key column whose nulls are not equal
HasNullKey(key) ==
    \E c \in 1..ColumnCount : ~NullValuesAreEqual(conditions[c]) /\ key[c] = NULL

\* the chain of a slot: the rows met from the slot's head along the next pointers
\* (cut after Count + 1 rows, or at a pointer that is no row)
RECURSIVE Chain(_, _)
Chain(a, fuel) ==
    IF a = 0 \/ fuel = 0 THEN <<>>
    ELSE IF a \notin AllAddrs THEN <<a>>
    ELSE <<a>> \o Chain(RowAt(a).at_pointer_offset, fuel - 1)

ChainOf(slot) == Chain(hash_map[slot], Count + 1)

Occurrences(seq, x) == Cardinality({i \in 1..Len(seq) : seq[i] = x})

C2_RowOnExactlyOneChain ==
    finalized =>
        \A a \in AllAddrs :
            LET slot == ApplyBitmask(Hash(RowAt(a).keys))
            IN /\ Occurrences(ChainOf(slot), a) = 1
               /\ \A other \in DOMAIN hash_map :
                    other # slot => Occurrences(ChainOf(other), a) = 0

\* a finalized table of three rows with a chain of two rows and two used slots
C2_Witness ==
    /\ finalized
    /\ Count = MaxBuildRows
    /\ \E slot \in DOMAIN hash_map : Len(ChainOf(slot)) = 2
    /\ Cardinality({slot \in DOMAIN hash_map : hash_map[slot] # 0}) = 2

\* C3: after Finalize every non-empty slot points at a row of a block whose pin
\* handle the table retains, every chain is free of cycles and ends at null after
\* at most as many steps as there are rows, and the chains together hold exactly
\* the rows that Build stored.
C3_ChainsCoverThePinnedRows ==
    finalized =>
        /\ \A slot \in DOMAIN hash_map :
             /\ hash_map[slot] # 0 =>
                  /\ hash_map[slot] \in AllAddrs
                  /\ BlockOf(hash_map[slot]) \in Range(pinned_handles)
             /\ NoDuplicates(ChainOf(slot))
             /\ Len(ChainOf(slot)) <= Count
             /\ Range(ChainOf(slot)) \subseteq AllAddrs
        /\ UNION {Range(ChainOf(slot)) : slot \in DOMAIN hash_map} = AllAddrs
        /\ Range(pinned_handles) = 1..Len(block_collection)

\* a finalized table whose rows lie in two blocks, with a chain that crosses them
C3_Witness ==
    /\ finalized
    /\ Len(block_collection) = 2
    /\ \E slot \in DOMAIN hash_map :
         /\ Len(ChainOf(slot)) >= 2
         /\ BlockOf(ChainOf(slot)[1]) # BlockOf(ChainOf(slot)[2])

\* the lanes of the rows of a result chunk, in the order of the chunk
LanesOf(chunk) == [i \in 1..Len(chunk) |-> chunk[i].lane]

\* the lanes of the batch of thread t with a matching build row, in input order
MatchedLanes(t) ==
    SelectSeq(IncrementalSelectionVector(Len(ss[t].keys)),
              LAMBDA p : MatchesOfLane(t, p) # {})

UnmatchedLanes(t) ==
    SelectSeq(IncrementalSelectionVector(Len(ss[t].keys)),
              LAMBDA p : MatchesOfLane(t, p) = {})

\* the emitted rows whose build side is NULL
Padded(t) == SelectSeq(Emitted(t), LAMBDA r : r.build = NULL)

\* C4: LEFT / OUTER join. Over the Next calls of one scan the rows with a build
\* row are matching pairs, each at most once; rows with a NULL build side appear
\* only in the last chunk, once the count has reached 0 and the scan is finished;
\* and in a finished scan every lane without a match has exactly one row, with a
\* NULL build side, while a lane with a match has its match rows and no other.
C4_LeftPadsTheUnmatchedLanes ==
    join_type \in {"LEFT", "OUTER"} =>
        /\ NoDuplicates(Emitted(1))
        /\ EmittedPairs(1) \subseteq MatchPairs(1)
        /\ \A c \in 1..(Len(output[1]) - 1) : \A i \in 1..Len(output[1][c]) :
             output[1][c][i].build > 0
        /\ Padded(1) # <<>> => ss[1].finished /\ ss[1].count = 0
        /\ ss[1].finished =>
             /\ ss[1].count = 0
             /\ EmittedPairs(1) = MatchPairs(1)
             /\ LanesOf(Padded(1)) = UnmatchedLanes(1)

\* a finished left scan that emitted match chunks and then NULL-padded rows
C4_Witness ==
    /\ join_type \in {"LEFT", "OUTER"}
    /\ ss[1].finished
    /\ Len(output[1]) >= 2
    /\ MatchedLanes(1) # <<>>
    /\ Padded(1) # <<>>

SemiOutput(t) == NextSemiOrAntiJoin(TRUE, ScanKeyMatches(ProbeScan(ss[t].keys)))

FoundMatch(t, p) == MatchesOfLane(t, p) # {}

\* C7: uncorrelated MARK join on a table with rows. The Next call emits one row
\* per lane; its mark is null iff the lane has a null in a key column whose nulls are not equal, or
\* the build side had a null key and the lane has no match; otherwise it is true
\* iff the lane has a match.
C7_MarkIsThreeValued ==
    (join_type = "MARK" /\ correlated_types = 0 /\ Count > 0 /\ ss[1].finished) =>
        /\ LanesOf(Emitted(1)) = IncrementalSelectionVector(Len(ss[1].keys))
        /\ \A p \in Lanes(1) :
             Emitted(1)[p].mark =
                IF HasNullKey(ss[1].keys[p]) \/ (has_null /\ ~FoundMatch(1, p)) THEN "null"
                ELSE IF FoundMatch(1, p) THEN "true" ELSE "false"

\* the counts of the group of lane p of the batch of thread t
GroupCounts(t, p) == correlated_counts[[c \in 1..correlated_types |-> ss[t].keys[p][c]]]

\* C8 as stated: correlated MARK join. The mark of a lane is false when the
\* count_star of its group is 0; otherwise true when the lane has a match;
\* otherwise null when count_star > count; otherwise false.
C8_CorrelatedMarkFromCounts ==
    (join_type = "MARK" /\ correlated_types > 0 /\ ss[1].finished) =>
        /\ LanesOf(Emitted(1)) = IncrementalSelectionVector(Len(ss[1].keys))
        /\ \A p \in Lanes(1) :
             Emitted(1)[p].mark =
                IF GroupCounts(1, p).count_star = 0 THEN "false"
                ELSE IF FoundMatch(1, p) THEN "true"
                ELSE IF GroupCounts(1, p).count_star > GroupCounts(1, p).count THEN "null"
                ELSE "false"

\* C8 amended: as above, and a lane without a match in a group without null
\* keys is null, not false, when the lane's own key is null.
C8_CorrelatedMarkFromCountsAndKey ==
    (join_type = "MARK" /\ correlated_types > 0 /\ ss[1].finished) =>
        /\ LanesOf(Emitted(1)) = IncrementalSelectionVector(Len(ss[1].keys))
        /\ \A p \in Lanes(1) :
             Emitted(1)[p].mark =
                IF GroupCounts(1, p).count_star = 0 THEN "false"
                ELSE IF FoundMatch(1, p) THEN "true"
                ELSE IF GroupCounts(1, p).count_star > GroupCounts(1, p).count THEN "null"
                ELSE IF ss[1].keys[p][ColumnCount] = NULL THEN "null"
                ELSE "false"

\* a finished correlated scan with a null-key lane in a group of two rows
\* without null keys, while another group has a row with a null key
C8_Witness ==
    /\ join_type = "MARK" /\ correlated_types > 0 /\ ss[1].finished
    /\ \E p \in Lanes(1) :
         /\ ss[1].keys[p][ColumnCount] = NULL
         /\ GroupCounts(1, p).count_star > 0
         /\ GroupCounts(1, p).count_star = GroupCounts(1, p).count
         /\ Emitted(1)[p].mark = "null"
    /\ \E g \in DOMAIN correlated_counts :
         correlated_counts[g].count_star > correlated_counts[g].count

\* the payload of the first row on the chain of the key's slot that the key
\* matches, NULL when there is none
FirstMatchInChain(key) ==
    LET chain == ChainOf(ApplyBitmask(Hash(key)))
        hits == {i \in 1..Len(chain) : Matches(key, RowAt(chain[i]).keys)}
    IN IF hits = {} THEN NULL
       ELSE RowAt(chain[CHOOSE i \in hits : \A j \in hits : i <= j]).payload

\* C9: SINGLE join. Nothing is emitted before the Next call; the Next call
\* finishes the scan and emits one chunk with one row per lane at the lane's
\* position, whose build side is the first matching row of the lane's chain,
\* and NULL when no build row matches.
C9_SingleTakesTheFirstMatch ==
    (join_type = "SINGLE" /\ ss[1].keys # <<>>) =>
        /\ ~ss[1].finished => output[1] = <<>>
        /\ ss[1].finished =>
             /\ Len(output[1]) = 1
             /\ output[1][1] = [p \in 1..Len(ss[1].keys) |->
                                  ResultRow(p, FirstMatchInChain(ss[1].keys[p]), "none")]
             /\ \A p \in Lanes(1) : ~FoundMatch(1, p) <=> output[1][1][p].build = NULL

\* a finished single scan with a lane that matches two build rows, a lane
\* whose first match lies behind the head of its chain, and a lane without match
C9_Witness ==
    /\ join_type = "SINGLE"
    /\ ss[1].finished
    /\ \/ \E p \in Lanes(1) : Cardinality(MatchesOfLane(1, p)) = 2
       \/ \E p \in Lanes(1) :
            /\ FoundMatch(1, p)
            /\ hash_map[ApplyBitmask(Hash(ss[1].keys[p]))] \notin MatchesOfLane(1, p)
    /\ \E p \in Lanes(1) : ~FoundMatch(1, p)

\* no thread is within a scan
ProbingAtRest == finalized /\ \A t \in threads : ~ss[t].active

\* C10: RIGHT / OUTER join. A found flag is set only for a build row that a
\* probed lane matches, and when no thread is within a scan the rows with the
\* flag set are exactly the rows that some probed lane has matched.
C10_FoundIffMatched ==
    IsRightOuterJoin(join_type) =>
        /\ \A a \in AllAddrs : RowAt(a).found => a \in matched_by_probe
        /\ ProbingAtRest =>
             \A a \in AllAddrs : RowAt(a).found <=> a \in matched_by_probe

\* no thread is within a scan, one row of the table is found and another is not
C10_Witness ==
    /\ IsRightOuterJoin(join_type) /\ threads = {1, 2}
    /\ ProbingAtRest
    /\ \E a \in AllAddrs : RowAt(a).found
    /\ \E a \in AllAddrs : ~RowAt(a).found

\* C11: RIGHT / OUTER join. A row that Build stores has its found flag false,
\* and in every step (Build, Finalize, Probe, Next of either thread, the end of
\* the probe, ScanFullOuter) a row whose flag is true keeps it true.
C11_FoundOnlyTurnsTrue ==
    [][IsRightOuterJoin(join_type) =>
         /\ \A a \in AllAddrs : RowAt(a).found => (a \in AllAddrs' /\ RowAt(a)'.found)
         /\ \A a \in AllAddrs' \ AllAddrs : ~RowAt(a)'.found]_vars

\* the full outer scan has emitted rows while other rows are found
C11_Witness ==
    /\ IsRightOuterJoin(join_type)
    /\ probe_ended /\ full_outer_output # <<>>
    /\ \E a \in AllAddrs : RowAt(a).found

\* every block has been walked by the ScanFullOuter calls
AllBlocksWalked == state.block_position >= Len(block_collection)

\* the build rows (by payload) that the ScanFullOuter calls have emitted
FullOuterEmitted == {full_outer_output[i].build : i \in 1..Len(full_outer_output)}

\* what holds in every state of the full outer scan
FullOuterScanned ==
    (IsRightOuterJoin(join_type) /\ probe_ended) =>
        /\ NoDuplicates(full_outer_output)
        /\ \A i \in 1..Len(full_outer_output) : full_outer_output[i].lane = NULL
        /\ FullOuterEmitted \subseteq {RowAt(a).payload : a \in {b \in AllAddrs : ~RowAt(b).found}}
        /\ \A t \in threads : Len(result[t]) <= STANDARD_VECTOR_SIZE
        /\ AllBlocksWalked =>
             FullOuterEmitted = {RowAt(a).payload : a \in {b \in AllAddrs : ~RowAt(b).found}}

\* C12: after the probe has ended, the ScanFullOuter calls of the threads on
\* the shared scan state emit rows with the probe side NULL, no row twice, only
\* rows whose found flag is false, at most STANDARD_VECTOR_SIZE rows per call;
\* when every block has been walked each such row has been emitted, and a call
\* then returns no row.
C12_FullOuterEmitsTheUnmatchedRows ==
    /\ []FullOuterScanned
    /\ [][\A t \in threads :
            (AllBlocksWalked /\ ScanFullOuter(t)) => result'[t] = <<>>]_vars

\* every block walked: as many unmatched rows emitted as one call holds, next to
\* a row that a probe matched, and a further call has returned nothing
C12_Witness ==
    /\ IsRightOuterJoin(join_type) /\ probe_ended
    /\ AllBlocksWalked
    /\ Len(full_outer_output) >= STANDARD_VECTOR_SIZE
    /\ \E a \in AllAddrs : RowAt(a).found
    /\ \E t \in threads : result[t] = <<>>
\* ------------------------------------------------------------ C13
Ascending(seq) == \A i, j \in 1..Len(seq) : i < j => seq[i] <= seq[j]
StrictlyAscending(seq) == \A i, j \in 1..Len(seq) : i < j => seq[i] < seq[j]

IsPrefix(s, q) == Len(s) <= Len(q) /\ s = SubSeq(q, 1, Len(s))

\* the build rows emitted so far for probe lane p of thread t, in emission order
BuildRowsOfLane(t, p) ==
    LET rows == SelectSeq(Emitted(t),
                          LAMBDA r : r.lane = p /\ r.build \notin {NULL, NoColumn})
    IN [i \in 1..Len(rows) |-> rows[i].build]

\* the rows of the chain of the slot of key that match it, in chain order
MatchesInChain(key) ==
    LET chain == SelectSeq(ChainOf(ApplyBitmask(Hash(key))),
                           LAMBDA a : Matches(key, RowAt(a).keys))
    IN [i \in 1..Len(chain) |-> RowAt(chain[i]).payload]

\* C14: every chain holds its rows from the one Finalize inserted last to the one
\* it inserted first (Finalize inserts the rows in the order Build stored them, and
\* the payload of a row is its rank in that order), and the build rows that the
\* Next calls emit for a probe lane are the matching rows of its chain in chain
\* order: a prefix of them while the scan goes on, all of them when count is 0
\* (a SINGLE join emits the first one only).
C14_MatchesInChainOrder ==
    finalized =>
        /\ \A slot \in DOMAIN hash_map :
              LET chain == ChainOf(slot)
              IN \A i, j \in 1..Len(chain) :
                    i < j => RowAt(chain[i]).payload > RowAt(chain[j]).payload
        /\ \A p \in Lanes(1) :
              /\ IsPrefix(BuildRowsOfLane(1, p), MatchesInChain(ss[1].keys[p]))
              /\ (ChainsExhausted(1) /\ join_type \in {"INNER", "LEFT", "RIGHT", "OUTER"})
                    => BuildRowsOfLane(1, p) = MatchesInChain(ss[1].keys[p])

\* a probe lane has emitted two build rows, the later inserted one first
C14_Witness ==
    /\ ChainsExhausted(1)
    /\ \E p \in Lanes(1) :
          /\ Len(BuildRowsOfLane(1, p)) >= 2
          /\ BuildRowsOfLane(1, p)[1] > BuildRowsOfLane(1, p)[2]

\* ------------------------------------------------------------ C15
\* C15: after any sequence of Build calls has_null is true exactly when some Build
\* call was given a row with a null in a key column whose nulls are not equal and
\* the join is no right or full outer join (such a row is dropped by PrepareKeys);
\* for a right or full outer join has_null stays false and the row is stored; for
\* the other join types no stored row has such a null.
C15_HasNullIffRowDropped ==
    /\ has_null <=> (fed_null_key /\ ~IsRightOuterJoin(join_type))
    /\ IsRightOuterJoin(join_type) =>
          (fed_null_key <=> \E a \in AllAddrs : HasNullKey(RowAt(a).keys))
    /\ ~IsRightOuterJoin(join_type) =>
          \A a \in AllAddrs : ~HasNullKey(RowAt(a).keys)

\* an inner join whose build side dropped a row and kept another
C15_Witness ==
    /\ join_type = "INNER" /\ has_null /\ Count > 0

\* ------------------------------------------------------------ C16
\* C16: when no row was built Finalize leaves every slot of the hash map null, and
\* a Probe of that table gives a scan with count = 0 that has read no slot of the
\* hash map.
C16_EmptyTableProbeReadsNothing ==
    (finalized /\ Count = 0) =>
        /\ \A slot \in DOMAIN hash_map : hash_map[slot] = 0
        /\ \A t \in threads :
              ss[t].keys # <<>> => (ss[t].count = 0 /\ hash_map_reads[t] = {})

\* ------------------------------------------------------------ C17
\* the lanes of the batch of thread t that PrepareKeys keeps
KeptLanes(t) == Range(PrepareKeys(ss[t].keys, FALSE))

\* the chain of the slot of probe lane p of thread t
ChainOfLane(t, p) == ChainOf(ApplyBitmask(Hash(ss[t].keys[p])))

\* that chain up to and with the first row that matches the lane (all of it when
\* no row does)
ChainToFirstMatch(t, p) ==
    LET chain == ChainOfLane(t, p)
        hits == {i \in 1..Len(chain) : Matches(ss[t].keys[p], RowAt(chain[i]).keys)}
    IN IF hits = {} THEN chain
       ELSE SubSeq(chain, 1, CHOOSE i \in hits : \A j \in hits : i <= j)

\* the number of chain rows that the lanes of thread t have been compared with
TotalVisited(t) == Len(Flatten(ss[t].visited))

\* a Next call on a scan with lanes left compares at least one more chain row
NextCallAdvances ==
    [][(NextCall(1) /\ ss[1].count > 0) => TotalVisited(1)' > TotalVisited(1)]_vars

\* C17 as stated: a Next call on a scan with lanes left goes on along the chains,
\* the rows a lane is compared with are the first rows of its slot's chain, in
\* chain order and each once, and when count is 0 every lane that PrepareKeys
\* kept has been compared with every row of its chain, for every join kind.
C17_WalkVisitsWholeChain ==
    /\ NextCallAdvances
    /\ [](finalized =>
            \A p \in Lanes(1) :
                /\ IsPrefix(ss[1].visited[p], ChainOfLane(1, p))
                /\ p \notin KeptLanes(1) => ss[1].visited[p] = <<>>
                /\ (p \in KeptLanes(1) /\ ss[1].count = 0)
                      => ss[1].visited[p] = ChainOfLane(1, p))

\* C17 amended: as above, but when count is 0 a lane of an inner, left, right or
\* full outer join has been compared with every row of its chain, and a lane of a
\* semi, anti, mark or single join with the rows of its chain up to and with its
\* first match (every row when it has none); an inner, left, right or full outer
\* scan reaches count = 0 with its last Next call, the others with their first.
C17_WalkVisitsChainToTheEnd ==
    /\ NextCallAdvances
    /\ [](finalized =>
            /\ \A p \in Lanes(1) :
                  /\ IsPrefix(ss[1].visited[p], ChainOfLane(1, p))
                  /\ p \notin KeptLanes(1) => ss[1].visited[p] = <<>>
                  /\ (p \in KeptLanes(1) /\ ss[1].count = 0)
                        => ss[1].visited[p] =
                             IF join_type \in {"INNER", "LEFT", "RIGHT", "OUTER"}
                             THEN ChainOfLane(1, p) ELSE ChainToFirstMatch(1, p)
            /\ (ss[1].keys # <<>> /\ ~ss[1].active) => ss[1].count = 0
            /\ ss[1].finished => ss[1].count = 0)

\* every build row is in one chain of two or more rows, a semi join is finished,
\* one lane has stopped at the head of that chain and another has been compared
\* with every row
C17_Witness ==
    /\ join_type = "SEMI" /\ ss[1].finished /\ Count >= 2
    /\ \E slot \in DOMAIN hash_map : Len(ChainOf(slot)) = Count
    /\ \E p, q \in KeptLanes(1) :
          /\ Len(ss[1].visited[p]) = 1
          /\ Len(ss[1].visited[q]) = Count

\* ------------------------------------------------------------ C18
OnePassKinds == {"SEMI", "ANTI", "MARK", "SINGLE"}

\* C18: for a SEMI, ANTI, MARK or SINGLE join nothing is emitted before the first
\* Next call and that call leaves the scan finished, whatever the chains; a Next
\* call on a finished scan puts no row in the result chunk, stores no found flag
\* and leaves the pointers, the selection, the count and found_match as they were,
\* and so does every Next call after it (Next maps a finished scan to itself).
C18_FinishedAfterFirstNext ==
    /\ [](join_type \in OnePassKinds =>
            /\ (ss[1].keys # <<>> /\ ~ss[1].finished)
                  => (ss[1].active /\ output[1] = <<>>)
            /\ ss[1].finished
                  => ScanNext(ss[1]) = [ss |-> ss[1], result |-> <<>>, stores |-> {}])
    /\ [][(join_type \in OnePassKinds /\ NextCall(1)) =>
            /\ ss[1]'.finished
            /\ ss[1].finished =>
                  /\ result[1]' = <<>>
                  /\ ss[1]'.pointers = ss[1].pointers
                  /\ ss[1]'.sel_vector = ss[1].sel_vector
                  /\ ss[1]'.count = ss[1].count
                  /\ ss[1]'.found_match = ss[1].found_match
                  /\ output[1]' = output[1]
                  /\ block_collection' = block_collection]_vars

\* a scan over a chain of two or more rows was finished by its first Next call,
\* which emitted rows, and a second Next call has returned an empty chunk
C18_Witness ==
    /\ join_type \in OnePassKinds
    /\ ss[1].finished /\ ~ss[1].active
    /\ Len(output[1]) = 1 /\ result[1] = <<>>
    /\ \E p \in KeptLanes(1) : Len(ChainOfLane(1, p)) >= 2

\* ------------------------------------------------------------ C19
\* C19: a histogram reduced from `from` bits to `to` bits has 2^to counters, its
\* counter i is the sum of the counters i*k .. i*k + k - 1 of the histogram it was
\* reduced from, with k = 2^(from - to), and the two histograms have the same sum.
C19_ReduceMergesAdjacentBuckets ==
    reduction.reduced_hist # <<>> =>
        LET new == reduction.reduced_hist
            k == Pow2(current_radix_bits - reduction.to)
        IN /\ DOMAIN new = 0..(Pow2(reduction.to) - 1)
           /\ \A i \in DOMAIN new : new[i] = SumRange(histogram_ptr, i * k, i * k + k - 1)
           /\ SumHistogram(new) = SumHistogram(histogram_ptr)
           /\ SumHistogram(new) = Count

\* a histogram with rows in two partitions was reduced by two bits or more and
\* the rows of both are in one counter
C19_Witness ==
    /\ reduction.reduced_hist # <<>>
    /\ current_radix_bits - reduction.to >= 2
    /\ \E p, q \in DOMAIN histogram_ptr :
          /\ p # q /\ histogram_ptr[p] > 0 /\ histogram_ptr[q] > 0
          /\ p \div Pow2(current_radix_bits - reduction.to)
                = q \div Pow2(current_radix_bits - reduction.to)

\* ------------------------------------------------------------ C20
\* the histogram over `bits` radix bits of the rows of the table
HistogramOfRows(bits) ==
    [p \in 0..(NumPartitions(bits) - 1) |->
        Cardinality({a \in AllAddrs : RadixPartition(Hash(RowAt(a).keys), bits) = p})]

\* the smallest bit count that one-bit reductions from `bits` reach while every
\* partition of the reduced histogram fits the budget
RECURSIVE CoarsestFittingBits(_, _)
CoarsestFittingBits(bits, avg_row_size) ==
    IF bits > 1 /\ PartitionsFitBudget(HistogramOfRows(bits - 1), avg_row_size)
    THEN CoarsestFittingBits(bits - 1, avg_row_size)
    ELSE bits

\* C20: when JoinHashTable::ReduceHistogram has returned, current_radix_bits is the
\* smallest bit count that one-bit reductions reach while every partition fits the
\* memory budget, and histogram_ptr is the histogram of the rows for that bit
\* count: 2^current_radix_bits counters whose sum is the row count.
C20_ReduceSelectsCoarsestFit ==
    reduction.call = "JoinHashTable::ReduceHistogram" =>
        /\ current_radix_bits = CoarsestFittingBits(INITIAL_RADIX_BITS, reduction.avg_row_size)
        /\ histogram_ptr = HistogramOfRows(current_radix_bits)
        /\ DOMAIN histogram_ptr = 0..(Pow2(current_radix_bits) - 1)
        /\ SumHistogram(histogram_ptr) = Count

\* the rows of a table as Build was given them: the fixed-width columns, and
\* the bytes that the string column points to in the pinned heap blocks
ContentsOf(ht) ==
    LET rows == Flatten(ht.block_collection)
    IN [i \in 1..Len(rows) |->
          [keys |-> rows[i].keys, payload |-> rows[i].payload,
           string |-> ReadBytes(ht.string_heap, rows[i].str_ptr, rows[i].str_len)]]

\* C21: after SwizzleCollectedBlocks and then UnswizzleBlocks, every row of
\* the table has the contents Build stored: its fixed-width columns are
\* unchanged and its string column points to the bytes of its string, with the
\* length of its string, in a pinned heap block.
C21_SwizzleUnswizzleRestoresRows ==
    \A w \in DOMAIN local_hts :
        (~all_constant /\ local_hts[w].phase = "unswizzled") =>
            ContentsOf(local_hts[w]) = local_hts[w].fed

\* an unswizzled table with a data block whose strings lay in one heap block
\* (it refers to that block) and a data block whose strings were spread over
\* several heap blocks (it refers to a block allocated for it)
C21_Witness ==
    /\ ~all_constant
    /\ local_hts[1].phase = "unswizzled"
    /\ \E b, c \in 1..Len(local_hts[1].string_heap) :
         /\ local_hts[1].string_heap[b].id =
              local_hts[1].next_block_id - 1
         /\ Len(local_hts[1].string_heap[c].bytes) <= HeapBlockSize
         /\ local_hts[1].string_heap[c].id < local_hts[1].string_heap[b].id
         /\ Len(local_hts[1].string_heap[b].bytes) > HeapBlockSize
\* every partition task has returned from Merge
AllMerged ==
    /\ event.state = "scheduled"
    /\ \A w \in DOMAIN event.tasks : event.tasks[w].pc \in {"merged", "finished"}

\* the payloads of the rows that the workers fed whose hash lies in partition p
FedToPartition(p) ==
    UNION {{local_hts[w].fed[i].payload :
              i \in {k \in 1..Len(local_hts[w].fed) :
                        RadixPartition(Hash(local_hts[w].fed[k].keys),
                                       current_radix_bits) = p}} :
           w \in DOMAIN local_hts}

PayloadsOf(blocks) == {RowsOf(blocks)[i].payload : i \in 1..Len(RowsOf(blocks))}

\* C23: when every partition task has merged its local table, the global
\* table has one partition collection per radix partition, partition p holds
\* exactly the rows of the local tables whose hash lies in p, each once, and
\* the collections of every local table are empty.
C23_MergedPartitionsHoldAllRows ==
    AllMerged =>
        /\ Len(global_ht.partition_block_collections) = NumPartitions(current_radix_bits)
        /\ \A p \in 1..Len(global_ht.partition_block_collections) :
              /\ PayloadsOf(global_ht.partition_block_collections[p]) = FedToPartition(p - 1)
              /\ CountOf(global_ht.partition_block_collections[p]) =
                    Cardinality(FedToPartition(p - 1))
        /\ \A w \in DOMAIN local_hts :
              /\ local_hts[w].block_collection = <<>>
              /\ local_hts[w].swizzled_block_collection = <<>>
              /\ \A p \in 1..Len(local_hts[w].partition_block_collections) :
                    local_hts[w].partition_block_collections[p] = <<>>

\* <<payload, hash>> of the rows of a collection
StoredRows(blocks) ==
    {<<RowsOf(blocks)[i].payload, Hash(RowsOf(blocks)[i].keys)>> : i \in 1..Len(RowsOf(blocks))}

\* the blocks of the global table: its partitions, its swizzled collection and
\* block_collection
GlobalBlocks ==
    Flatten(global_ht.partition_block_collections)
        \o global_ht.swizzled_block_collection \o block_collection

\* a thread is inside FinalizeExternal, past the test of finalized
InsideFinalizeExternal == \E t \in AllThreads : finalize.pc[t] \in {"pinned", "unswizzled"}

\* C30: the event has one task per local table; the local tables are cleared
\* (FinishEvent) only when every task has finished; and when FinalizeExternal
\* runs, and afterwards, the global table holds every row of the local tables
\* once.
C30_EventMergesEveryTableOnce ==
    /\ event.state = "scheduled" => DOMAIN event.tasks = DOMAIN local_hts
    /\ event.state = "finished" =>
          /\ local_hts = <<>>
          /\ \A w \in DOMAIN event.tasks : event.tasks[w].pc = "finished"
    /\ local_hts = <<>> => event.state \in {"none", "finished"}
    /\ (event.state = "finished" \/ InsideFinalizeExternal \/ finalized) =>
          /\ StoredRows(GlobalBlocks) = event.fed
          /\ CountOf(GlobalBlocks) = Cardinality(event.fed)

\* C24: Finalize runs at most once for all the FinalizeExternal calls, and once
\* the table is finalized no step changes block_collection, the swizzled and
\* partition collections, the hash map, the bitmask or the pinned handles.
C24_FinalizeExternalBuildsOnce ==
    /\ [](finalize.runs <= 1)
    /\ [][finalized => UNCHANGED <<block_collection, global_ht, hash_map, bitmask,
                                   pinned_handles>>]_vars

\* both threads have called FinalizeExternal, three calls in all have returned,
\* and the table holds rows
C24_Witness ==
    /\ finalized
    /\ \A t \in AllThreads : finalize.pc[t] = "idle" /\ finalize.calls[t] >= 1
    /\ finalize.calls[1] + finalize.calls[2] >= 3
    /\ finalize.runs = 1
    /\ Count >= 2

\* the rows of the partitions before the first that does not fit: the largest
\* prefix of the partitions whose rows fit the memory budget together
RECURSIVE RoundRows(_, _)
RoundRows(p, used) ==
    IF p >= NumPartitions(current_radix_bits) THEN {}
    ELSE LET rows == {r \in event.fed : RadixPartition(r[2], current_radix_bits) = p}
         IN IF (used + Cardinality(rows)) * RowWidth > MemoryBudget THEN {}
            ELSE rows \cup RoundRows(p + 1, used + Cardinality(rows))

\* C28: the rows that PinPartitions has promoted fit the memory budget, and
\* the chained table of the finalized table holds the rows of the partitions of
\* the round, the largest prefix of the partitions that fits the budget.
C28_PinnedRoundFitsBudget ==
    /\ (\E t \in AllThreads : finalize.pc[t] = "pinned") =>
          CountOf(global_ht.swizzled_block_collection) * RowWidth <= MemoryBudget
    /\ finalized =>
          /\ Count * RowWidth <= MemoryBudget
          /\ StoredRows(block_collection) = RoundRows(0, 0)

\* thread t holds a cursor that ProbeAndBuild returned
ProbeAndBuildCursor(t) == "true_sel" \in DOMAIN ss[t]

PartitionOfLane(t, i) == RadixPartition(Hash(ss[t].keys[i]), current_radix_bits)

\* C26: ProbeAndBuild places every lane that PrepareKeys keeps in exactly one
\* of two selections, the lanes of the partitions below partition_cutoff
\* (probed now) and the other lanes (sunk), each in input order; the rows the
\* sink table appends are the rows of the lanes of the second selection, as
\* many as the kept lanes less the lanes probed now, and no lane dropped for a
\* null key is among them.
C26_ProbeAndBuildSplitsLanes ==
    \A t \in threads :
        ProbeAndBuildCursor(t) =>
            /\ Range(ss[t].true_sel) \cup Range(ss[t].false_sel) =
                  Range(PrepareKeys(ss[t].keys, FALSE))
            /\ Range(ss[t].true_sel) \cap Range(ss[t].false_sel) = {}
            /\ StrictlyAscending(ss[t].true_sel) /\ StrictlyAscending(ss[t].false_sel)
            /\ \A i \in Range(ss[t].true_sel) : PartitionOfLane(t, i) < partition_cutoff
            /\ \A i \in Range(ss[t].false_sel) : PartitionOfLane(t, i) >= partition_cutoff
            /\ ss[t].sunk = [i \in 1..Len(ss[t].false_sel) |-> ss[t].keys[ss[t].false_sel[i]]]
            /\ Len(ss[t].sunk) = Len(PrepareKeys(ss[t].keys, FALSE)) - Len(ss[t].true_sel)

\* C27: no result chunk of a scan that ProbeAndBuild returned holds a row for a
\* lane that ProbeAndBuild has deferred (sunk for a later round), for any join
\* kind.
C27_DeferredLaneEmitsNothing ==
    \A t \in threads :
        ProbeAndBuildCursor(t) =>
            \A c \in 1..Len(output[t]) : \A i \in 1..Len(output[t][c]) :
                output[t][c][i].lane \notin Range(ss[t].false_sel)

\* the rows that the in-memory path (Build, Finalize, Probe) emits for probe
\* key k and the build row of payload pl: one for each lane with key k if the
\* build row matches k
InMemoryCount(k, pl) ==
    IF pl \in 1..Len(rounds.build_rows) /\ Matches(k, rounds.build_rows[pl])
    THEN Occurrences(rounds.input, k) ELSE 0

\* C22: INNER join. When the rounds are over, the rows emitted in all rounds
\* are, as a multiset of <<probe key, build row>>, the rows that the in-memory
\* path emits for the same build and probe input.
C22_ExternalEqualsInMemory ==
    (rounds.phase = "done" /\ join_type = "INNER") =>
        \A k \in KeyTuples(ColumnCount) : \A pl \in NoColumn..MaxBuildRows :
            Occurrences(rounds.emitted, <<k, pl>>) = InMemoryCount(k, pl)

\* the sum of the row counts of the partitions lo .. hi - 1 of the probe side
RECURSIVE RowsInPartitions(_, _)
RowsInPartitions(lo, hi) ==
    IF lo >= hi THEN 0
    ELSE CountOf(probe_ht.table.partition_block_collections[lo + 1])
            + RowsInPartitions(lo + 1, hi)

\* C29: after PreparePartitionedProbe the partitions below the previous cutoff
\* are released, to_scan is the row count of the partitions from the previous
\* cutoff up to the cutoff of the build table, and partition_cutoff is the
\* cutoff of the build table; the cutoff never decreases; every partition
\* below the cutoff has been counted in to_scan in exactly one round and no
\* other partition has been counted; and no released partition is read.
C29_PrepareAdvancesRound ==
    /\ []((rounds.no > 1 /\ rounds.phase \in {"probe", "end", "done"}) =>
             /\ probe_ht.partition_cutoff = partition_cutoff
             /\ probe_ht.released = 0..(probe_ht.previous_cutoff - 1)
             /\ probe_ht.to_scan =
                   RowsInPartitions(probe_ht.previous_cutoff, probe_ht.partition_cutoff))
    /\ [](\A p \in DOMAIN probe_ht.counted :
             probe_ht.counted[p] = IF p < probe_ht.partition_cutoff THEN 1 ELSE 0)
    /\ [](~probe_ht.null_access)
    /\ [][probe_ht'.partition_cutoff >= probe_ht.partition_cutoff]_vars

\* the third round: PreparePartitionedProbe has released the partitions of an
\* earlier round and counted rows to scan
C29_Witness ==
    /\ rounds.no >= 3
    /\ rounds.phase = "probe"
    /\ probe_ht.released # {}
    /\ probe_ht.to_scan > 0

Capacity == Cardinality(DOMAIN hash_map)

IsPowerOfTwo(n) == \E k \in 0..(HASH_BITS + MaxBuildRows) : n = Pow2(k)

\* C39: the pointer array of a finalized table has capacity slots, with capacity
\* the smallest power of two that is at least 2 * Count() and at least
\* BLOCK_SIZE / sizeof(data_ptr_t) + 1; bitmask is capacity - 1; at least half
\* the slots are empty, and a slot is not null only if a row hashes to it.
C39_CapacityIsPowerOfTwoAtLeastTwiceCount ==
    finalized =>
        /\ IsPowerOfTwo(Capacity)
        /\ Capacity >= 2 * Count
        /\ Capacity >= BlockSizeInPointers + 1
        /\ Capacity \div 2 < MaxValue(2 * Count, BlockSizeInPointers + 1)
        /\ bitmask = Capacity - 1
        /\ 2 * Cardinality({s \in DOMAIN hash_map : hash_map[s] = 0}) >= Capacity
        /\ \A s \in DOMAIN hash_map :
              hash_map[s] # 0 =>
                  /\ hash_map[s] \in AllAddrs
                  /\ Hash(RowAt(hash_map[s]).keys) % Capacity = s

\* a finalized table whose 2 * Count() exceeds the block term and is not a
\* power of two: the capacity is rounded up
C39_Witness ==
    /\ finalized
    /\ 2 * Count > BlockSizeInPointers + 1
    /\ Capacity > 2 * Count
    /\ \E s \in DOMAIN hash_map : hash_map[s] # 0
\* ------------------------------------------------------------ C37
\* the rows stored before row a whose hash masks to the slot of row a
EarlierInSlot(a) ==
    {b \in AllAddrs : b < a /\ Hash(RowAt(b).keys) % Capacity = Hash(RowAt(a).keys) % Capacity}

\* the greatest member of a non-empty set of addresses
MaxAddr(addrs) == CHOOSE a \in addrs : \A b \in addrs : b <= a

\* C37 as stated: the hash of a row has a slot of its own, so the value loaded
\* at pointer_offset is the hash of the row's key before and after Finalize.
C37_FinalizeKeepsStoredHash ==
    \A a \in AllAddrs : RowAt(a).at_pointer_offset = Hash(RowAt(a).keys)

\* C37 amended: a row has one slot at pointer_offset for its hash and its
\* next-pointer.  Until Finalize the slot holds the hash that Build stored;
\* Finalize overwrites it in every row with the next-pointer of the row, the
\* row stored latest before it whose hash masks to the same slot of the hash
\* map, or null when there is none.
C37_FinalizeOverwritesHashWithNext ==
    \A a \in AllAddrs :
        RowAt(a).at_pointer_offset =
            IF ~finalized THEN Hash(RowAt(a).keys)
            ELSE IF EarlierInSlot(a) = {} THEN 0
            ELSE MaxAddr(EarlierInSlot(a))

\* a finalized table with a row whose slot holds null where its hash was not 0,
\* and a row whose slot holds the address of an earlier row
C37_Witness ==
    /\ finalized
    /\ \E a \in AllAddrs :
          RowAt(a).at_pointer_offset = 0 /\ Hash(RowAt(a).keys) # 0
    /\ \E a \in AllAddrs :
          RowAt(a).at_pointer_offset \in AllAddrs
\* ------------------------------------------------------------ C40
\* the keys of the rows of a collection, in block order
StoredKeys(blocks) == [i \in 1..Len(Flatten(blocks)) |-> Flatten(blocks)[i].keys]

\* the key tuples of a batch without a null in the columns 1..n whose nulls are
\* not equal, in input order; every key tuple for a right or full outer join
KeptKeys(keys, n) ==
    IF IsRightOuterJoin(join_type) THEN keys
    ELSE SelectSeq(keys, LAMBDA k : \A c \in 1..n :
                                       NullValuesAreEqual(conditions[c]) \/ k[c] # NULL)

\* C40 as stated: a Build call appends the input rows without a null in an
\* equality column whose nulls are not equal, in input order, and every input
\* row for a right or full outer join.
C40_BuildFiltersNullEqualityKeys ==
    [][finalized' = finalized =>
          StoredKeys(block_collection') =
              StoredKeys(block_collection) \o KeptKeys(rounds.input, EqualityCount)]_vars

\* C40 amended: a Build call appends the input rows without a null in any key
\* column, equality or not, whose nulls are not equal, in input order, and
\* every input row for a right or full outer join.
C40_BuildFiltersNullKeys ==
    [][finalized' = finalized =>
          StoredKeys(block_collection') =
              StoredKeys(block_collection) \o KeptKeys(rounds.input, ColumnCount)]_vars

\* a Build call on conditions (=, >) has stored one of two input rows: the
\* other has its only null in the column of the condition >
C40_Witness ==
    /\ rounds.phase = "build"
    /\ conditions = EqualAndGreaterConditions
    /\ ~IsRightOuterJoin(join_type)
    /\ Len(rounds.input) = 2
    /\ Count = 1
    /\ \E i \in 1..2 : rounds.input[i][1] # NULL /\ rounds.input[i][2] = NULL
\* ------------------------------------------------------------ C33
\* C33 as stated: with the stub of PartitionsFitInMemory, when
\* JoinHashTable::ReduceHistogram has returned current_radix_bits is at its
\* minimum, the bit count at which the loop condition current_radix_bits > 1
\* fails.
C33_StubDrivesBitsToMinimum ==
    reduction.call = "JoinHashTable::ReduceHistogram" => current_radix_bits = 1

\* C33 amended: with the stub of PartitionsFitInMemory the loop of
\* JoinHashTable::ReduceHistogram breaks in its first pass: it computes one
\* histogram reduced by one bit and drops it, current_radix_bits stays
\* INITIAL_RADIX_BITS, and histogram_ptr stays the histogram of the rows over
\* INITIAL_RADIX_BITS bits.
C33_StubKeepsInitialBits ==
    reduction.call = "JoinHashTable::ReduceHistogram" =>
        /\ current_radix_bits = INITIAL_RADIX_BITS
        /\ histogram_ptr = HistogramOfRows(INITIAL_RADIX_BITS)
        /\ reduction.reduced_hist =
              RadixReduceHistogram(histogram_ptr, INITIAL_RADIX_BITS, INITIAL_RADIX_BITS - 1)

\* ReduceHistogram has returned on a table whose histogram reduced by one bit
\* is within the memory budget, and has more than one row in a partition
C33_Witness ==
    /\ reduction.call = "JoinHashTable::ReduceHistogram"
    /\ Count >= 2
    /\ PartitionsFitBudget(reduction.reduced_hist, reduction.avg_row_size)
    /\ \E p \in DOMAIN reduction.reduced_hist : reduction.reduced_hist[p] >= 2
C31_ScheduleAveragesWithoutError ==
    /\ event.state # "crashed"
    /\ event.state \in {"inserted", "scheduled"} =>
          histogram_ptr = MergeHistograms(InitializeHistogram(INITIAL_RADIX_BITS),
                                          local_hts, DOMAIN local_hts)
\* ------------------------------------------------------------ C35
\* C35: when every partition task has merged its local table into the global
\* table, has_null of the global table is true if has_null of a merged local
\* table is true.
C35_MergeKeepsHasNull ==
    (AllMerged /\ \E w \in DOMAIN local_hts : local_hts[w].has_null) => has_null
\* ------------------------------------------------------------ C36
\* C36: no SwizzleCollectedBlocks call reads a heap block past the end of the
\* list; a swizzled table has as many swizzled heap blocks as swizzled data
\* blocks; and when UnswizzleBlocks runs from FinalizeExternal the global
\* table has as many swizzled data blocks as swizzled heap blocks, of which a
\* layout of fixed-width columns has none.
C36_SwizzledBlocksPairedWithHeapBlocks ==
    /\ \A w \in DOMAIN local_hts :
          /\ local_hts[w].phase # "crashed"
          /\ local_hts[w].phase = "swizzled" =>
                Len(local_hts[w].swizzled_block_collection) =
                    Len(local_hts[w].swizzled_string_heap)
    /\ (all_constant /\ \E t \in AllThreads : finalize.pc[t] = "pinned") =>
          Len(global_ht.swizzled_block_collection) = 0
\* ------------------------------------------------------------ C34
\* key_locations of all the chunks of the scan, in order
ScannedAddresses ==
    Flatten([k \in 1..Len(ScannedChunks) |-> ScannedChunks[k].key_locations])

\* C34: each GetScanIndices call returns at most STANDARD_VECTOR_SIZE rows;
\* state.position does not exceed the row count of the block of
\* state.block_position; every row address of a chunk lies inside its block;
\* no row is in two chunks (or twice in one); the chunks hold no more rows
\* than the table; and when a call has returned 0 they hold every row.
C34_ScanVisitsEveryRowOnce ==
    \A w \in DOMAIN local_hts :
        rounds.phase = "scan" =>
            /\ \A k \in 1..Len(ScannedChunks) :
                  ScannedChunks[k].count <= STANDARD_VECTOR_SIZE
            /\ state.block_position < Len(local_hts[w].block_collection) =>
                  state.position <= Len(local_hts[w].block_collection[state.block_position + 1])
            /\ \A i \in 1..Len(ScannedAddresses) :
                  InBlock(local_hts[w].block_collection, ScannedAddresses[i])
            /\ \A i, j \in 1..Len(ScannedAddresses) :
                  i # j => ScannedAddresses[i] # ScannedAddresses[j]
            /\ Len(ScannedAddresses) <= CountOf(local_hts[w].block_collection)
            /\ local_hts[w].phase = "scanned" =>
                  Len(ScannedAddresses) = CountOf(local_hts[w].block_collection)
\* ------------------------------------------------------------ C38
\* the string that Build was given for the row of a payload
FedString(ht, payload) ==
    ht.fed[CHOOSE i \in 1..Len(ht.fed) : ht.fed[i].payload = payload].string

\* every row of block_collection points to its heap row and to the bytes of
\* its string in a pinned heap block
HoldsAbsolutePointers(ht) ==
    \A b \in 1..Len(ht.block_collection) : \A i \in 1..Len(ht.block_collection[b]) :
        LET row == ht.block_collection[b][i]
        IN /\ LoadCell(ht.string_heap, row.heap_ptr) = row.str_len + 1
           /\ row.str_ptr = row.heap_ptr + 1
           /\ ReadBytes(ht.string_heap, row.str_ptr, row.str_len) = FedString(ht, row.payload)

\* every row of the swizzled collection holds the offset of its heap row in
\* the heap block of its data block, and the offset of its string from there
HoldsOffsets(ht) ==
    \A b \in 1..Len(ht.swizzled_block_collection) :
        \A i \in 1..Len(ht.swizzled_block_collection[b]) :
            LET row == ht.swizzled_block_collection[b][i]
                bytes == ht.swizzled_string_heap[b].bytes
            IN /\ row.heap_ptr \in 0..(Len(bytes) - 1)
               /\ row.str_ptr = 1
               /\ bytes[row.heap_ptr + 1] = row.str_len + 1
               /\ SubSeq(bytes, row.heap_ptr + 2, row.heap_ptr + 1 + row.str_len) =
                     FedString(ht, row.payload)

\* C38: in every state the rows of block_collection hold absolute pointers
\* into the pinned heap blocks and the rows of the swizzled collection hold
\* block-relative offsets (no row is swizzled or unswizzled twice, which
\* would leave it with neither).
C38_RowsMatchTheirCollection ==
    \A w \in DOMAIN local_hts :
        (~all_constant /\ local_hts[w].phase # "crashed") =>
            /\ HoldsAbsolutePointers(local_hts[w])
            /\ HoldsOffsets(local_hts[w])
====
